---- MODULE Spec2Model ----
(***************************************************************************)
(* Model of the distributed-lock test harness of advdb-mco2:               *)
(*   - python/case3_test.py  (ConcurrentWriteTest: Workers, run_test,      *)
(*     display_results, validate_serializability)                          *)
(*   - python/db/db_config_lock_unused.py (execute_multi_node_write,       *)
(*     replicate_write)                                                    *)
(*   - python/utils/lock_manager.py (DistributedLockManager) is not part   *)
(*     of the source tree; its operations are modelled from the design     *)
(*     document (section 4.1).                                             *)
(* Amounts are in cents (1000.00 is 100000).                               *)
(***************************************************************************)
EXTENDS Integers, Sequences, FiniteSets, TLC

\* ------------------------------------------------------------------ bounds
\* Workers of one run (run_test creates 10: 4 on node 1, 4 on node 2 and 2
\* on node 3).
NumWorkers == 3
\* How many faults (a lease that lapses, a call that raises) may happen in
\* one run.
MaxFaults == 1
\* Concurrent callers of replicate_write.
NumCallers == 2
\* Threads that call the lock manager directly.
NumClients == 2

\* --------------------------------------------------------------- constants
Nodes == {1, 2, 3}
\* Workers of node 1 and of node 2: 4 of 10, rounded up.
Node1Writers == (4 * NumWorkers + 9) \div 10
Node2Writers == IF 2 * Node1Writers <= NumWorkers THEN Node1Writers
                ELSE NumWorkers - Node1Writers
Workers == 1 .. NumWorkers
IsolationLevels ==
  {"READ UNCOMMITTED", "READ COMMITTED", "REPEATABLE READ", "SERIALIZABLE"}
BaselineAmount == 100000
ToleranceCents == 1
CaseOwner == "case3_test"
AppOwner == "app"
Callers == 1 .. NumCallers
Clients == 1 .. NumClients
NoLock == [holder |-> "", expired |-> TRUE]
NoRow == -1
NoPending == -2
NoResult == [status |-> "NONE"]

VARIABLES
  isolation_level, mode, test_scenario, \* arguments of run_test
  lock_table,      \* DLM lock table of the resource: node -> entry
  faults,          \* faults so far
  db,              \* node -> committed amount of the row, or NoRow
  row_lock,        \* node -> Worker holding the engine's row lock, or 0
  pending,         \* node -> uncommitted value of the row-lock holder
  pc,              \* Worker -> position in write_/delete_transaction
  lock_acquired,   \* Worker -> local lock_acquired (kept after return)
  conn,            \* Worker -> "none" | "open"
  before,          \* Worker -> amount read before the mutation
  err,             \* Worker -> message of the exception being handled
  start_time,      \* Worker -> start_time
  releases,        \* Worker -> number of release_lock calls made (history)
  verified,        \* Worker -> its check_lock call returned True (history)
  results,         \* self.results: Worker -> outcome
  clock,           \* time.time(); every end_time read is a later instant
  launched,        \* number of threads started by run_test
  rt_pc,           \* position of run_test
  lost_updates,    \* adjacent pairs display_results reported
  concurrent_exec, \* main: outcomes of the concurrent run_test call
  sequential_exec, \* main: outcomes of the sequential run_test call
  is_valid,        \* main: verdict of validate_serializability
  main_pc,         \* position of main
  mw_pc,           \* caller -> position in execute_multi_node_write
  target_nodes,    \* caller -> node list replicate_write passes on
  lock_idx,        \* caller -> position of acquire_multi_node_lock
  node_idx,        \* caller -> position of the "for node in nodes" loop
  mw_status,       \* caller -> status of the last returned dict
  taker,           \* node -> caller whose call inserted the entry (history)
  dl_pc,           \* client -> "idle" | "waiting" | "crashed"
  dl_node,         \* client -> node its acquire_lock call polls (0: none)
  dl_ret,          \* client -> how its last call of the manager ended
  dl_taker,        \* node -> client whose call inserted the entry (history)
  test_case,       \* which reader/writer test function is running
  test_nodes,      \* its nodes argument: writer on [1], reader on [2]
  initial_value,   \* amount the test read on nodes[0] before the threads
  new_value,       \* amount the writer thread writes
  writer_pc,       \* position of the writer thread
  reader_pc,       \* position of the reader thread
  read_values,     \* amounts the reader thread has read
  in_flight_read,  \* a read returned an uncommitted amount (history)
  writer_at_read,  \* positions of the writer at the reads (history)
  anomalies,       \* types of the anomalies log_anomaly recorded
  global_level,    \* node -> isolation level a new session starts with
  query_cache,     \* _query_cache: cache key -> entry (NoEntry: absent)
  now,             \* datetime.now(), in seconds
  last_call,       \* what the last fetch call was given and did (history)
  cw_pc,           \* write thread -> position in _test_concurrent_writes
  cw_current,      \* write thread -> current_value it read FOR UPDATE
  cw_update_ok,    \* write thread -> its UPDATE succeeded (history)
  cw_success,      \* write thread -> results[thread]['success']
  successful_writes, \* final_results['successful_writes'] (-1: not yet)
  active_transactions,     \* session -> st.session_state.active_transactions
  transaction_connections, \* session -> ...transaction_connections
  transaction_cursors,     \* session -> ...transaction_cursors
  trans_ids,       \* node -> trans_id values committed in its trans table
  opened,          \* dedicated connections opened so far
  last_click       \* session -> page of its last Commit/Rollback click

runArgs == << isolation_level, mode, test_scenario >>
engineVars == << db, row_lock, pending >>
localVars == << lock_acquired, conn, before, err, start_time >>
historyVars == << releases, verified >>
runVars == << launched, rt_pc, lost_updates >>
oracleVars == << concurrent_exec, sequential_exec, is_valid, main_pc >>
callVars == << mw_pc, target_nodes, lock_idx, node_idx, mw_status, taker >>
clientVars == << dl_pc, dl_node, dl_ret, dl_taker >>
testVars == << test_case, test_nodes, initial_value, new_value, writer_pc,
              reader_pc, read_values, in_flight_read, writer_at_read,
              anomalies, global_level >>
cacheVars == << query_cache, now, last_call >>
writesVars == << cw_pc, cw_current, cw_update_ok, cw_success,
                successful_writes >>
guiVars == << active_transactions, transaction_connections,
             transaction_cursors, trans_ids, opened, last_click >>
multiVars == << mw_pc, target_nodes, lock_idx, node_idx, mw_status, taker,
               dl_pc, dl_node, dl_ret, dl_taker >>

vars == << runArgs, lock_table, faults, engineVars, pc, localVars,
           historyVars, results, clock, runVars, oracleVars, multiVars,
           testVars, cacheVars, writesVars, guiVars >>

\* ------------------------------------------------- DistributedLockManager
\* Variant: an entry blocks acquire_lock until it is deleted.
LockAbsent(t, n) == t[n] = NoLock

\* acquire_lock succeeds on an absent entry or on one whose lease lapsed.
LockFree(t, n) == t[n] = NoLock \/ t[n].expired

acquire_lock(t, n, owner) ==
  [t EXCEPT ![n] = [holder |-> owner, expired |-> FALSE]]

\* Variant: release_lock returns without deleting anything.
release_lock_keeps(t, n, owner) == t

\* release_lock removes the entry only if it is held by the caller's owner.
release_lock(t, n, owner) ==
  IF t[n] # NoLock /\ t[n].holder = owner
  THEN [t EXCEPT ![n] = NoLock]
  ELSE t

\* check_lock: present, not expired, owned.
check_lock(t, n, owner) ==
  /\ t[n] # NoLock
  /\ ~t[n].expired
  /\ t[n].holder = owner

\* ------------------------------------------------------ run_test's Workers
\* Thread list of run_test: node 1's Workers, then node 2's, then node 3's.
NodeOf(i) ==
  IF i <= Node1Writers THEN 1
  ELSE IF i <= Node1Writers + Node2Writers THEN 2
  ELSE 3

\* In the mixed scenario the last Worker of node 1 and of node 2 deletes.
KindOf(i, scenario) ==
  IF scenario = "mixed"
     /\ (i = Node1Writers \/ i = Node1Writers + Node2Writers)
  THEN "DELETE"
  ELSE "WRITE"

\* 11000.00 + i*1111.11
NewAmount(i) == 1100000 + i * 111111

\* Variant: the handler knows the native lock errors only.
error_category_native_only(e) ==
  IF e = "lock wait timeout" \/ e = "deadlock" THEN "LOCK_CONTENTION"
  ELSE "OTHER"

\* "Categorize error types": substring tests on str(e).lower()
error_category(e) ==
  IF e = "lock wait timeout" \/ e = "deadlock" THEN "LOCK_CONTENTION"
  ELSE IF e = "failed to acquire lock" THEN "DISTRIBUTED_LOCK_TIMEOUT"
  ELSE "OTHER"

Abs(x) == IF x < 0 THEN -x ELSE x


\* Successful Workers of a result set, sorted by end_time (end times are
\* distinct clock readings).
SuccessfulOf(res) == {w \in DOMAIN res : res[w].status = "SUCCESS"}

\* Variant: the successful Workers in transaction-id order, end_time ignored.
SortedByTransactionId(S, res) ==
  [i \in 1 .. Cardinality(S) |->
     CHOOSE w \in S : Cardinality({v \in S : v < w}) = i - 1]

SortedByEndTime(S, res) ==
  [i \in 1 .. Cardinality(S) |->
     CHOOSE w \in S :
       Cardinality({v \in S : res[v].end_time < res[w].end_time}) = i - 1]

\* display_results, "Lost Update Detection": the adjacent pairs it reports.
LostUpdateDetection(res) ==
  LET sorted_writes == SortedByEndTime(SuccessfulOf(res), res)
  IN { <<sorted_writes[i], sorted_writes[i + 1]>> :
         i \in { j \in 1 .. (Len(sorted_writes) - 1) :
                   /\ res[sorted_writes[j]].type = "WRITE"
                   /\ res[sorted_writes[j + 1]].type = "WRITE"
                   /\ Abs(res[sorted_writes[j + 1]].before_amount
                          - res[sorted_writes[j]].after_amount)
                        > ToleranceCents } }

\* ---------------------------------------------------------------- Init
\* The harness before a run: __init__, and run_test's reset of self.results.
DriverIdle ==
  /\ lock_table = [n \in Nodes |-> NoLock]
  /\ faults = 0
  /\ db = [n \in Nodes |-> BaselineAmount]
  /\ row_lock = [n \in Nodes |-> 0]
  /\ pending = [n \in Nodes |-> NoPending]
  /\ pc = [w \in Workers |-> "idle"]
  /\ lock_acquired = [w \in Workers |-> FALSE]
  /\ conn = [w \in Workers |-> "none"]
  /\ before = [w \in Workers |-> NoRow]
  /\ err = [w \in Workers |-> ""]
  /\ start_time = [w \in Workers |-> 0]
  /\ releases = [w \in Workers |-> 0]
  /\ verified = [w \in Workers |-> FALSE]
  /\ results = [w \in Workers |-> NoResult]
  /\ clock = 1
  /\ launched = 0
  /\ rt_pc = "threads"
  /\ lost_updates = {}

\* main before its first run_test call
OracleIdle ==
  /\ concurrent_exec = [w \in Workers |-> NoResult]
  /\ sequential_exec = [w \in Workers |-> NoResult]
  /\ is_valid = TRUE
  /\ main_pc = "run_test"

\* no call of replicate_write under way; every caller calls once
MultiIdle ==
  /\ mw_pc = [c \in Callers |-> "idle"]
  /\ target_nodes = [c \in Callers |-> << >>]
  /\ lock_idx = [c \in Callers |-> 0]
  /\ node_idx = [c \in Callers |-> 0]
  /\ mw_status = [c \in Callers |-> "none"]
  /\ taker = [n \in Nodes |-> 0]
  /\ dl_pc = [u \in Clients |-> "idle"]
  /\ dl_node = [u \in Clients |-> 0]
  /\ dl_ret = [u \in Clients |-> "none"]
  /\ dl_taker = [n \in Nodes |-> 0]

\* no reader/writer test under way
TestIdle ==
  /\ test_case = "none"
  /\ test_nodes = << 1, 2 >>
  /\ initial_value = BaselineAmount
  /\ new_value = BaselineAmount
  /\ writer_pc = "idle"
  /\ reader_pc = "idle"
  /\ read_values = {}
  /\ in_flight_read = FALSE
  /\ writer_at_read = {}
  /\ anomalies = {}
  /\ global_level = [n \in Nodes |-> "REPEATABLE READ"]

\* db_config: absent cache entry, and "no call made yet"
NoEntry == [timestamp |-> -1, data |-> 0]
NoCall == [fn |-> "none", node |-> 0, ttl |-> 0, age |-> -1,
           from_cache |-> FALSE, data |-> 0]

\* Streamlit sessions of the transaction manager
NumSessions == 2
Sessions == 1 .. NumSessions

\* gui/app.py at the start of a session: the three lists are empty; the
\* trans tables hold the rows loaded before.
GuiIdle ==
  /\ active_transactions = [s \in Sessions |-> << >>]
  /\ transaction_connections = [s \in Sessions |-> << >>]
  /\ transaction_cursors = [s \in Sessions |-> << >>]
  /\ trans_ids = [n \in Nodes |-> IF n = 1 THEN {1, 2} ELSE {3 - n + 1}]
  /\ opened = 0
  /\ last_click = [s \in Sessions |-> "none"]

\* no concurrent-writes test under way
WritesIdle ==
  /\ cw_pc = [i \in 1 .. 2 |-> "idle"]
  /\ cw_current = [i \in 1 .. 2 |-> 0]
  /\ cw_update_ok = [i \in 1 .. 2 |-> FALSE]
  /\ cw_success = [i \in 1 .. 2 |-> "none"]
  /\ successful_writes = -1

\* _query_cache = {} at import
CacheIdle ==
  /\ query_cache = [n \in Nodes |-> NoEntry]
  /\ now = 0
  /\ last_call = NoCall

Init ==
  /\ isolation_level \in IsolationLevels
  /\ mode \in {"concurrent", "sequential"}
  /\ test_scenario \in {"update_only", "mixed"}
  /\ DriverIdle
  /\ OracleIdle
  /\ MultiIdle
  /\ TestIdle
  /\ CacheIdle
  /\ WritesIdle
  /\ GuiIdle

\* raise inside the try block of Worker w
Raise(w, e) ==
  /\ pc' = [pc EXCEPT ![w] = "except"]
  /\ err' = [err EXCEPT ![w] = e]

\* ------------------------------------------------------------- run_test
\* mode == "concurrent": every thread is started (0.1 s apart, which is
\* below the resolution of the clock); each Worker reads start_time on
\* entry.
LaunchConcurrent ==
  /\ rt_pc = "threads"
  /\ mode = "concurrent"
  /\ launched = 0
  /\ launched' = NumWorkers
  /\ pc' = [w \in Workers |-> "acquire"]
  /\ start_time' = [w \in Workers |-> clock]
  /\ UNCHANGED << runArgs, guiVars, cacheVars, writesVars, testVars,
                  oracleVars,
                  multiVars,
                  lock_table, faults, engineVars, lock_acquired,
                  conn, before, err, historyVars, results, clock, rt_pc,
                  lost_updates >>

\* Variant: the next thread is started without joining the previous one.
LaunchSequentialNoJoin(w) ==
  /\ rt_pc = "threads"
  /\ mode = "sequential"
  /\ w = launched + 1
  /\ launched' = w
  /\ pc' = [pc EXCEPT ![w] = "acquire"]
  /\ start_time' = [start_time EXCEPT ![w] = clock]
  /\ UNCHANGED << runArgs, guiVars, cacheVars, writesVars, testVars,
                  oracleVars,
                  multiVars,
                  lock_table, faults, engineVars, lock_acquired,
                  conn, before, err, historyVars, results, clock, rt_pc,
                  lost_updates >>

\* mode == "sequential": thread.start(); thread.join() for each thread in
\* list order.
LaunchSequential(w) ==
  /\ rt_pc = "threads"
  /\ mode = "sequential"
  /\ w = launched + 1
  /\ \A v \in Workers : v < w => pc[v] = "done"
  /\ launched' = w
  /\ pc' = [pc EXCEPT ![w] = "acquire"]
  /\ start_time' = [start_time EXCEPT ![w] = clock]
  /\ UNCHANGED << runArgs, guiVars, cacheVars, writesVars, testVars,
                  oracleVars,
                  multiVars,
                  lock_table, faults, engineVars, lock_acquired,
                  conn, before, err, historyVars, results, clock, rt_pc,
                  lost_updates >>

\* --------------------------------- write_transaction / delete_transaction
\* acquire_lock(resource_id, node_num, timeout=30) returned True, then
\* mysql.connector.connect and the SET SESSION statements
AcquireLock(w) ==
  /\ pc[w] = "acquire"
  /\ LockFree(lock_table, NodeOf(w))
  /\ lock_table' = acquire_lock(lock_table, NodeOf(w), CaseOwner)
  /\ lock_acquired' = [lock_acquired EXCEPT ![w] = TRUE]
  /\ conn' = [conn EXCEPT ![w] = "open"]
  /\ pc' = [pc EXCEPT ![w] = "check"]
  /\ UNCHANGED << runArgs, guiVars, cacheVars, writesVars, testVars,
                  oracleVars,
                  multiVars,
                  faults, engineVars, before, err, start_time,
                  historyVars, results, clock, runVars >>

\* acquire_lock returned True, then mysql.connector.connect raises
ConnectError(w) ==
  /\ pc[w] = "acquire"
  /\ LockFree(lock_table, NodeOf(w))
  /\ faults < MaxFaults
  /\ faults' = faults + 1
  /\ lock_table' = acquire_lock(lock_table, NodeOf(w), CaseOwner)
  /\ lock_acquired' = [lock_acquired EXCEPT ![w] = TRUE]
  /\ Raise(w, "connection error")
  /\ UNCHANGED << runArgs, guiVars, cacheVars, writesVars, testVars,
                  oracleVars,
                  multiVars,
                  engineVars, conn, before, start_time,
                  historyVars, results, clock, runVars >>

\* acquire_lock returned False: the lock stayed held for the timeout
AcquireTimeout(w) ==
  /\ pc[w] = "acquire"
  /\ ~LockFree(lock_table, NodeOf(w))
  /\ Raise(w, "failed to acquire lock")
  /\ UNCHANGED << runArgs, guiVars, cacheVars, writesVars, testVars,
                  oracleVars,
                  multiVars,
                  lock_table, faults, engineVars, lock_acquired,
                  conn, before, start_time, historyVars, results, clock,
                  runVars >>

\* Variant: the result of check_lock is not acted upon.
CheckLockIgnored(w) ==
  /\ pc[w] = "check"
  /\ pc' = [pc EXCEPT ![w] = "select"]
  /\ verified' = [verified EXCEPT ![w] =
                    check_lock(lock_table, NodeOf(w), CaseOwner)]
  /\ UNCHANGED << runArgs, guiVars, cacheVars, writesVars, testVars,
                  oracleVars,
                  multiVars,
                  lock_table, faults, engineVars, localVars,
                  releases, results, clock, runVars >>

\* if not check_lock(...): raise "Lost lock"; START TRANSACTION
CheckLock(w) ==
  /\ pc[w] = "check"
  /\ IF check_lock(lock_table, NodeOf(w), CaseOwner)
     THEN /\ pc' = [pc EXCEPT ![w] = "select"]
          /\ err' = err
          /\ verified' = [verified EXCEPT ![w] = TRUE]
     ELSE /\ Raise(w, "lost lock")
          /\ verified' = verified
  /\ UNCHANGED << runArgs, guiVars, cacheVars, writesVars, testVars,
                  oracleVars,
                  multiVars,
                  lock_table, faults, engineVars, lock_acquired,
                  conn, before, start_time, releases, results, clock,
                  runVars >>

\* The value a plain SELECT of Worker w sees on node n.
PlainRead(w, n) ==
  IF row_lock[n] = w /\ pending[n] # NoPending THEN pending[n]
  ELSE IF isolation_level = "READ UNCOMMITTED" /\ pending[n] # NoPending
       THEN pending[n]
       ELSE db[n]

\* SELECT ... [FOR UPDATE]; before = fetchone(); raise if not before
SelectBefore(w) ==
  LET n == NodeOf(w) IN
  /\ pc[w] = "select"
  /\ IF isolation_level = "SERIALIZABLE"
     THEN /\ row_lock[n] \in {0, w}
          /\ row_lock' = [row_lock EXCEPT ![n] = w]
          /\ IF db[n] = NoRow
             THEN Raise(w, "not found") /\ before' = before
             ELSE /\ before' = [before EXCEPT ![w] = db[n]]
                  /\ pc' = [pc EXCEPT ![w] = "mutate"]
                  /\ err' = err
     ELSE /\ row_lock' = row_lock
          /\ IF PlainRead(w, n) = NoRow
             THEN Raise(w, "not found") /\ before' = before
             ELSE /\ before' = [before EXCEPT ![w] = PlainRead(w, n)]
                  /\ pc' = [pc EXCEPT ![w] = "mutate"]
                  /\ err' = err
  /\ UNCHANGED << runArgs, guiVars, cacheVars, writesVars, testVars,
                  oracleVars,
                  multiVars,
                  lock_table, faults, db, pending, lock_acquired,
                  conn, start_time, historyVars, results, clock, runVars >>

\* The engine gives up a wait for the row lock another Worker holds.
LockWaitTimeout(w) ==
  LET n == NodeOf(w) IN
  /\ \/ pc[w] = "select" /\ isolation_level = "SERIALIZABLE"
     \/ pc[w] = "mutate"
  /\ row_lock[n] \notin {0, w}
  /\ Raise(w, "lock wait timeout")
  /\ UNCHANGED << runArgs, guiVars, cacheVars, writesVars, testVars,
                  oracleVars,
                  multiVars,
                  lock_table, faults, engineVars, lock_acquired,
                  conn, before, start_time, historyVars, results, clock,
                  runVars >>

\* UPDATE trans SET amount = new_amount / DELETE FROM trans: takes the row
\* lock; changes nothing when the row is no longer there.
Mutate(w) ==
  LET n == NodeOf(w) IN
  /\ pc[w] = "mutate"
  /\ row_lock[n] \in {0, w}
  /\ row_lock' = [row_lock EXCEPT ![n] = w]
  /\ pending' = [pending EXCEPT ![n] =
                   IF db[n] = NoRow THEN pending[n]
                   ELSE IF KindOf(w, test_scenario) = "DELETE" THEN NoRow
                   ELSE NewAmount(w)]
  /\ pc' = [pc EXCEPT ![w] = "dwell"]
  /\ UNCHANGED << runArgs, guiVars, cacheVars, writesVars, testVars,
                  oracleVars,
                  multiVars,
                  lock_table, faults, db, localVars, historyVars,
                  results, clock, runVars >>

\* The row as Worker w's own transaction sees it after its mutation.
ReadBack(w, n) ==
  IF row_lock[n] = w /\ pending[n] # NoPending THEN pending[n] ELSE db[n]

\* conn.commit() on node n by Worker w
CommittedDb(w, n) ==
  IF row_lock[n] = w /\ pending[n] # NoPending
  THEN [db EXCEPT ![n] = pending[n]]
  ELSE db

\* Commit, rollback and close give up the row lock and the pending value.
ReleasedRowLock(w, n) ==
  IF row_lock[n] = w THEN [row_lock EXCEPT ![n] = 0] ELSE row_lock

\* Variant: the uncommitted value outlives the transaction.
PendingKept(w, n) == pending

ClearedPending(w, n) ==
  IF row_lock[n] = w THEN [pending EXCEPT ![n] = NoPending] ELSE pending

SuccessResult(w, after_amount) ==
  [type |-> KindOf(w, test_scenario), node |-> NodeOf(w),
   status |-> "SUCCESS", before_amount |-> before[w],
   after_amount |-> after_amount, error_category |-> "",
   start_time |-> start_time[w], end_time |-> clock]

FailedResult(w) ==
  [type |-> KindOf(w, test_scenario), node |-> NodeOf(w),
   status |-> "FAILED", before_amount |-> NoRow, after_amount |-> NoRow,
   error_category |-> error_category(err[w]),
   start_time |-> start_time[w], end_time |-> clock]

\* Variant: the lock is released on the success path only.
FinallyReleaseOnSuccess(w) ==
  /\ IF lock_acquired[w] /\ results'[w].status = "SUCCESS"
     THEN /\ lock_table' = release_lock(lock_table, NodeOf(w), CaseOwner)
          /\ releases' = [releases EXCEPT ![w] = @ + 1]
     ELSE UNCHANGED << lock_table, releases >>
  /\ conn' = [conn EXCEPT ![w] = "none"]
  /\ before' = [before EXCEPT ![w] = NoRow]
  /\ err' = [err EXCEPT ![w] = ""]
  /\ pc' = [pc EXCEPT ![w] = "done"]

\* finally: release_lock if lock_acquired; cursor.close(); conn.close();
\* the function returns and its locals before and e are gone.
Finally(w) ==
  /\ IF lock_acquired[w]
     THEN /\ lock_table' = release_lock(lock_table, NodeOf(w), CaseOwner)
          /\ releases' = [releases EXCEPT ![w] = @ + 1]
     ELSE UNCHANGED << lock_table, releases >>
  /\ conn' = [conn EXCEPT ![w] = "none"]
  /\ before' = [before EXCEPT ![w] = NoRow]
  /\ err' = [err EXCEPT ![w] = ""]
  /\ pc' = [pc EXCEPT ![w] = "done"]

\* End of the dwell: read back (UPDATE only), commit, read end_time, store
\* the SUCCESS outcome, run the finally block.  An UPDATE whose row vanished
\* reads back None and raises on after['amount'] once the commit is done.
Commit(w) ==
  LET n == NodeOf(w) IN
  /\ pc[w] = "dwell"
  /\ db' = CommittedDb(w, n)
  /\ row_lock' = ReleasedRowLock(w, n)
  /\ pending' = ClearedPending(w, n)
  /\ clock' = clock + 1
  /\ IF KindOf(w, test_scenario) = "WRITE" /\ ReadBack(w, n) = NoRow
     THEN /\ Raise(w, "nonetype")
          /\ UNCHANGED << results, lock_table, releases, conn, before >>
     ELSE /\ results' = [results EXCEPT ![w] =
                 SuccessResult(w, IF KindOf(w, test_scenario) = "WRITE"
                                  THEN ReadBack(w, n) ELSE NoRow)]
          /\ Finally(w)
  /\ UNCHANGED << runArgs, guiVars, cacheVars, writesVars, testVars,
                  oracleVars,
                  multiVars,
                  faults, lock_acquired, start_time, verified,
                  runVars >>

\* The read-back SELECT or conn.commit() raises while the mutation is still
\* uncommitted (the server aborts the statement): control goes to the
\* handler with the transaction open.
CommitError(w) ==
  /\ pc[w] = "dwell"
  /\ faults < MaxFaults
  /\ faults' = faults + 1
  /\ Raise(w, "commit error")
  /\ UNCHANGED << runArgs, guiVars, cacheVars, writesVars, testVars,
                  oracleVars,
                  multiVars,
                  lock_table, engineVars, lock_acquired, conn, before,
                  start_time, historyVars, results, clock, runVars >>

\* Variant: the exception of one Worker ends the whole run: the sibling
\* threads are stopped where they are.
HandleErrorStopsRun(w) ==
  LET n == NodeOf(w) IN
  /\ pc[w] = "except"
  /\ clock' = clock + 1
  /\ IF conn[w] = "open"
     THEN /\ row_lock' = ReleasedRowLock(w, n)
          /\ pending' = ClearedPending(w, n)
     ELSE UNCHANGED << row_lock, pending >>
  /\ results' = [results EXCEPT ![w] = FailedResult(w)]
  /\ IF lock_acquired[w]
     THEN /\ lock_table' = release_lock(lock_table, NodeOf(w), CaseOwner)
          /\ releases' = [releases EXCEPT ![w] = @ + 1]
     ELSE UNCHANGED << lock_table, releases >>
  /\ conn' = [conn EXCEPT ![w] = "none"]
  /\ before' = [before EXCEPT ![w] = NoRow]
  /\ err' = [err EXCEPT ![w] = ""]
  /\ pc' = [v \in Workers |-> IF pc[v] = "idle" THEN "idle" ELSE "done"]
  /\ UNCHANGED << runArgs, guiVars, cacheVars, writesVars, testVars,
                  oracleVars,
                  multiVars,
                  faults, db, lock_acquired, start_time, verified,
                  runVars >>

\* except Exception: end_time, rollback, classify, store the FAILED outcome,
\* run the finally block.
HandleError(w) ==
  LET n == NodeOf(w) IN
  /\ pc[w] = "except"
  /\ clock' = clock + 1
  /\ IF conn[w] = "open"
     THEN /\ row_lock' = ReleasedRowLock(w, n)
          /\ pending' = ClearedPending(w, n)
     ELSE UNCHANGED << row_lock, pending >>
  /\ results' = [results EXCEPT ![w] = FailedResult(w)]
  /\ Finally(w)
  /\ UNCHANGED << runArgs, guiVars, cacheVars, writesVars, testVars,
                  oracleVars,
                  multiVars,
                  faults, db, lock_acquired, start_time, verified,
                  runVars >>

\* conn.rollback() raises inside the handler: the exception leaves the
\* except block before an outcome is stored; the finally block still runs,
\* and closing the connection ends the open transaction.
RollbackError(w) ==
  LET n == NodeOf(w) IN
  /\ pc[w] = "except"
  /\ conn[w] = "open"
  /\ faults < MaxFaults
  /\ faults' = faults + 1
  /\ clock' = clock + 1
  /\ row_lock' = ReleasedRowLock(w, n)
  /\ pending' = ClearedPending(w, n)
  /\ results' = results
  /\ Finally(w)
  /\ UNCHANGED << runArgs, guiVars, cacheVars, writesVars, testVars,
                  oracleVars,
                  multiVars,
                  db, lock_acquired, start_time, verified,
                  runVars >>

\* The lease of the entry on node n runs out.
LeaseLapse(n) ==
  /\ rt_pc = "threads"
  /\ lock_table[n] # NoLock
  /\ ~lock_table[n].expired
  /\ faults < MaxFaults
  /\ faults' = faults + 1
  /\ lock_table' = [lock_table EXCEPT ![n].expired = TRUE]
  /\ UNCHANGED << runArgs, guiVars, cacheVars, writesVars, testVars,
                  oracleVars,
                  multiVars,
                  engineVars, pc, localVars, historyVars, results,
                  clock, runVars >>

\* all threads joined: display_results()
DisplayResults ==
  /\ rt_pc = "threads"
  /\ launched = NumWorkers
  /\ \A w \in Workers : pc[w] = "done"
  /\ lost_updates' = LostUpdateDetection(results)
  /\ rt_pc' = "restore1"
  /\ UNCHANGED << runArgs, guiVars, cacheVars, writesVars, testVars,
                  oracleVars,
                  multiVars,
                  lock_table, faults, engineVars, pc, localVars,
                  historyVars, results, clock, launched >>

RestorePc == << "restore1", "restore2", "restore3", "returned" >>

\* restore_original_value(trans_id, n): re-insert or update to 1000.00
restore_original_value(n) ==
  /\ rt_pc = RestorePc[n]
  /\ db' = [db EXCEPT ![n] = BaselineAmount]
  /\ rt_pc' = RestorePc[n + 1]
  /\ UNCHANGED << runArgs, guiVars, cacheVars, writesVars, testVars,
                  oracleVars,
                  multiVars,
                  lock_table, faults, row_lock, pending, pc,
                  localVars, historyVars, results, clock, launched,
                  lost_updates >>

\* restore_original_value raises (connect, execute or commit): the except
\* block prints a warning and the row stays as the run left it.
RestoreError(n) ==
  /\ rt_pc = RestorePc[n]
  /\ faults < MaxFaults
  /\ faults' = faults + 1
  /\ rt_pc' = RestorePc[n + 1]
  /\ UNCHANGED << runArgs, guiVars, cacheVars, writesVars, testVars,
                  oracleVars,
                  multiVars,
                  lock_table, engineVars, pc,
                  localVars, historyVars, results, clock, launched,
                  lost_updates >>

Next ==
  \/ LaunchConcurrent
  \/ \E w \in Workers : LaunchSequential(w)
  \/ \E w \in Workers : AcquireLock(w)
  \/ \E w \in Workers : ConnectError(w)
  \/ \E w \in Workers : AcquireTimeout(w)
  \/ \E w \in Workers : CheckLock(w)
  \/ \E w \in Workers : SelectBefore(w)
  \/ \E w \in Workers : LockWaitTimeout(w)
  \/ \E w \in Workers : Mutate(w)
  \/ \E w \in Workers : Commit(w)
  \/ \E w \in Workers : CommitError(w)
  \/ \E w \in Workers : HandleError(w)
  \/ \E w \in Workers : RollbackError(w)
  \/ \E n \in Nodes : LeaseLapse(n)
  \/ DisplayResults
  \/ \E n \in Nodes : restore_original_value(n)
  \/ \E n \in Nodes : RestoreError(n)

Spec == Init /\ [][Next]_vars

\* One step of Worker w's thread, faults apart.
WorkerStep(w) ==
  \/ AcquireLock(w)
  \/ AcquireTimeout(w)
  \/ CheckLock(w)
  \/ SelectBefore(w)
  \/ LockWaitTimeout(w)
  \/ Mutate(w)
  \/ Commit(w)
  \/ HandleError(w)

\* run_test(trans_id, isolation_level="SERIALIZABLE", test_scenario="mixed"),
\* the call in which every kind of failure can occur.
InitWorkers ==
  /\ isolation_level = "SERIALIZABLE"
  /\ mode \in {"concurrent", "sequential"}
  /\ test_scenario = "mixed"
  /\ DriverIdle
  /\ OracleIdle
  /\ MultiIdle
  /\ TestIdle
  /\ CacheIdle
  /\ WritesIdle
  /\ GuiIdle

\* A started thread keeps running: acquire_lock returns within its timeout,
\* the engine ends a lock wait within its own, the dwell ends.
SpecWorkers ==
  /\ InitWorkers
  /\ [][Next]_vars
  /\ \A w \in Workers : WF_vars(WorkerStep(w))

\* ------------------------------------------------------------------ main
\* Orders in which the Workers of a run can end.
EndOrders(m) ==
  IF m = "sequential" THEN {[w \in Workers |-> w]}
  ELSE {f \in [Workers -> Workers] :
          \A a, b \in Workers : a # b => f[a] # f[b]}

\* The successful Workers of w's node that ended before w.
EarlierOnNode(w, ok, rank) ==
  {v \in Workers : ok[v] /\ NodeOf(v) = NodeOf(w) /\ rank[v] < rank[w]}

\* The committed amount Worker w's SELECT finds.
AmountFound(w, ok, rank) ==
  LET earlier == EarlierOnNode(w, ok, rank)
  IN IF earlier = {} THEN BaselineAmount
     ELSE NewAmount(CHOOSE v \in earlier :
                      \A u \in earlier : rank[u] <= rank[v])

\* No Worker succeeds on a node after a DELETE succeeded there, a
\* sequential run has no more failures than faults, and only a Worker that
\* ran below SERIALIZABLE after another one can have read a stale amount.
CanHappen(scenario, m, level, ok, rank, stale) ==
  /\ \A u, w \in Workers :
       (ok[u] /\ ok[w] /\ NodeOf(u) = NodeOf(w) /\ rank[u] < rank[w])
         => KindOf(u, scenario) = "WRITE"
  /\ m = "sequential" =>
       Cardinality({w \in Workers : ~ok[w]}) <= MaxFaults
  /\ stale # 0 =>
       /\ m = "concurrent"
       /\ level # "SERIALIZABLE"
       /\ ok[stale]
       /\ EarlierOnNode(stale, ok, rank) # {}

\* self.results as run_test returns it: ok[w] says whether Worker w
\* succeeded, rank[w] is its place in the order of end times, stale is a
\* Worker that read the baseline although another one had committed (0 for
\* none).
RunOutcome(scenario, m, ok, rank, stale) ==
  [w \in Workers |->
     [type |-> KindOf(w, scenario), node |-> NodeOf(w),
      status |-> IF ok[w] THEN "SUCCESS" ELSE "FAILED",
      before_amount |-> IF ~ok[w] THEN NoRow
                        ELSE IF w = stale THEN BaselineAmount
                        ELSE AmountFound(w, ok, rank),
      after_amount |-> IF ok[w] /\ KindOf(w, scenario) = "WRITE"
                       THEN NewAmount(w) ELSE NoRow,
      error_category |-> IF ok[w] THEN "" ELSE "OTHER",
      start_time |-> IF m = "concurrent" THEN 1 ELSE rank[w],
      end_time |-> rank[w] + 1]]

\* The result sets run_test can return.
RunResults(scenario, m, level) ==
  { RunOutcome(scenario, m, x[1], x[2], x[3]) :
      x \in { y \in [Workers -> BOOLEAN] \X EndOrders(m) \X (0 .. NumWorkers) :
                CanHappen(scenario, m, level, y[1], y[2], y[3]) } }

\* Variant: the first committers are compared instead of the last ones.
validate_first_committer(concurrent_results, sequential_results, level) ==
  LET concurrent_successful == SuccessfulOf(concurrent_results)
      sequential_successful == SuccessfulOf(sequential_results)
      concurrent_sorted ==
        SortedByEndTime(concurrent_successful, concurrent_results)
      sequential_sorted ==
        SortedByEndTime(sequential_successful, sequential_results)
      concurrent_final == concurrent_results[concurrent_sorted[1]]
      sequential_final == sequential_results[sequential_sorted[1]]
  IN IF /\ level = "SERIALIZABLE"
        /\ concurrent_successful # {}
        /\ sequential_successful # {}
     THEN IF /\ concurrent_final.type = "DELETE"
             /\ sequential_final.type = "DELETE"
          THEN TRUE
          ELSE IF /\ concurrent_final.type = "WRITE"
                  /\ sequential_final.type = "WRITE"
               THEN Abs(concurrent_final.after_amount
                        - sequential_final.after_amount) < ToleranceCents
               ELSE TRUE
     ELSE TRUE

\* validate_serializability: the verdict (first component of the returned
\* pair)
validate_serializability(concurrent_results, sequential_results, level) ==
  LET concurrent_successful == SuccessfulOf(concurrent_results)
      sequential_successful == SuccessfulOf(sequential_results)
      concurrent_sorted ==
        SortedByEndTime(concurrent_successful, concurrent_results)
      sequential_sorted ==
        SortedByEndTime(sequential_successful, sequential_results)
      concurrent_final ==
        concurrent_results[concurrent_sorted[Len(concurrent_sorted)]]
      sequential_final ==
        sequential_results[sequential_sorted[Len(sequential_sorted)]]
  IN IF /\ level = "SERIALIZABLE"
        /\ concurrent_successful # {}
        /\ sequential_successful # {}
     THEN IF /\ concurrent_final.type = "DELETE"
             /\ sequential_final.type = "DELETE"
          THEN TRUE
          ELSE IF /\ concurrent_final.type = "WRITE"
                  /\ sequential_final.type = "WRITE"
               THEN Abs(concurrent_final.after_amount
                        - sequential_final.after_amount) < ToleranceCents
               ELSE TRUE
     ELSE TRUE

\* main after both run_test calls of one isolation level have returned
InitOracle ==
  /\ isolation_level \in IsolationLevels
  /\ mode = "sequential"
  /\ test_scenario \in {"update_only", "mixed"}
  /\ DriverIdle
  /\ MultiIdle
  /\ TestIdle
  /\ CacheIdle
  /\ WritesIdle
  /\ GuiIdle
  /\ concurrent_exec
       \in RunResults(test_scenario, "concurrent", isolation_level)
  /\ sequential_exec
       \in RunResults(test_scenario, "sequential", isolation_level)
  /\ is_valid = TRUE
  /\ main_pc = "validate"

\* is_valid, seq_duration = test.validate_serializability(...)
ValidateSerializability ==
  /\ main_pc = "validate"
  /\ is_valid' = validate_serializability(concurrent_exec, sequential_exec,
                                          isolation_level)
  /\ main_pc' = "validated"
  /\ UNCHANGED << runArgs, guiVars, cacheVars, writesVars, testVars,
                  lock_table, faults, engineVars, pc, localVars,
                  historyVars, results, clock, runVars, concurrent_exec,
                  sequential_exec, multiVars >>

NextOracle == ValidateSerializability

SpecOracle == InitOracle /\ [][NextOracle]_vars

\* ------------------------------------------- execute_multi_node_write
\* replicate_write: target nodes for a source node
TargetNodes(source_node) ==
  IF source_node = 1 THEN << 1, 2, 3 >>
  ELSE IF source_node = 2 THEN << 2, 1 >>
  ELSE << 3, 1 >>

NodeSet(nodes) == {nodes[i] : i \in 1 .. Len(nodes)}

\* Variant: the locks are attempted in the order the caller passed.
CallerOrder(nodes) == nodes

\* acquire_multi_node_lock attempts the nodes in ascending id order.
SortedNodes(nodes) ==
  [i \in 1 .. Len(nodes) |->
     CHOOSE n \in NodeSet(nodes) :
       Cardinality({m \in NodeSet(nodes) : m < n}) = i - 1]

\* The node caller c's acquire_multi_node_lock attempts next.
AttemptedNode(c) == SortedNodes(target_nodes[c])[lock_idx[c]]

\* The nodes this call of acquire_multi_node_lock has taken so far.
TakenInCall(c) ==
  {SortedNodes(target_nodes[c])[i] : i \in 1 .. (lock_idx[c] - 1)}

\* release_lock on every node of S, by the manager's owner.
ReleasedOn(t, S) ==
  [n \in Nodes |->
     IF n \in S /\ t[n] # NoLock /\ t[n].holder = AppOwner
     THEN NoLock ELSE t[n]]

\* The entries release_lock removes are no longer anybody's.
TakerAfterRelease(t, S) ==
  [n \in Nodes |->
     IF n \in S /\ t[n] # NoLock /\ t[n].holder = AppOwner
     THEN 0 ELSE taker[n]]

\* The call returns; its locals are gone.
Returned(c) ==
  /\ mw_pc' = [mw_pc EXCEPT ![c] = "returned"]
  /\ target_nodes' = [target_nodes EXCEPT ![c] = << >>]
  /\ lock_idx' = [lock_idx EXCEPT ![c] = 0]
  /\ node_idx' = [node_idx EXCEPT ![c] = 0]

\* replicate_write(query, params, resource_id, source_node) enters
\* execute_multi_node_write and acquire_multi_node_lock.
ReplicateWrite(c, source_node) ==
  /\ mw_pc[c] = "idle"
  /\ mw_pc' = [mw_pc EXCEPT ![c] = "acquire"]
  /\ target_nodes' = [target_nodes EXCEPT ![c] = TargetNodes(source_node)]
  /\ lock_idx' = [lock_idx EXCEPT ![c] = 1]
  /\ node_idx' = [node_idx EXCEPT ![c] = 0]
  /\ UNCHANGED << runArgs, guiVars, cacheVars, writesVars, testVars,
                  oracleVars, clientVars, lock_table, faults,
                  engineVars, pc,
                  localVars, historyVars, results, clock, runVars,
                  mw_status, taker >>

\* execute_with_lock(query, params, resource_id, target_node): one lock,
\* one node to write, and the same unconditional release in "finally".
ExecuteWithLock(c, target_node) ==
  /\ mw_pc[c] = "idle"
  /\ mw_pc' = [mw_pc EXCEPT ![c] = "acquire"]
  /\ target_nodes' = [target_nodes EXCEPT ![c] = << target_node >>]
  /\ lock_idx' = [lock_idx EXCEPT ![c] = 1]
  /\ node_idx' = [node_idx EXCEPT ![c] = 0]
  /\ UNCHANGED << runArgs, guiVars, cacheVars, writesVars, testVars,
                  oracleVars, clientVars, lock_table, faults,
                  engineVars, pc,
                  localVars, historyVars, results, clock, runVars,
                  mw_status, taker >>

\* acquire_multi_node_lock takes the next lock; after the last one it
\* returns True and the "for node in nodes" loop begins.
AcquireNext(c) ==
  /\ mw_pc[c] = "acquire"
  /\ LockFree(lock_table, AttemptedNode(c))
  /\ lock_table' = acquire_lock(lock_table, AttemptedNode(c), AppOwner)
  /\ taker' = [taker EXCEPT ![AttemptedNode(c)] = c]
  /\ IF lock_idx[c] = Len(target_nodes[c])
     THEN /\ mw_pc' = [mw_pc EXCEPT ![c] = "execute"]
          /\ node_idx' = [node_idx EXCEPT ![c] = 1]
          /\ lock_idx' = lock_idx
     ELSE /\ lock_idx' = [lock_idx EXCEPT ![c] = @ + 1]
          /\ UNCHANGED << mw_pc, node_idx >>
  /\ UNCHANGED << runArgs, guiVars, cacheVars, writesVars, testVars,
                  oracleVars, clientVars, faults, engineVars, pc,
                  localVars,
                  historyVars, results, clock, runVars, target_nodes,
                  mw_status >>

\* The attempted lock stayed held for the timeout: the locks taken in this
\* call are released and acquire_multi_node_lock returns False.
AcquireAllTimeout(c) ==
  /\ mw_pc[c] = "acquire"
  /\ ~LockFree(lock_table, AttemptedNode(c))
  /\ lock_table' = ReleasedOn(lock_table, TakenInCall(c))
  /\ taker' = TakerAfterRelease(lock_table, TakenInCall(c))
  /\ mw_pc' = [mw_pc EXCEPT ![c] = "failed"]
  /\ UNCHANGED << runArgs, guiVars, cacheVars, writesVars, testVars,
                  oracleVars, clientVars, faults, engineVars, pc,
                  localVars,
                  historyVars, results, clock, runVars, target_nodes,
                  lock_idx, node_idx, mw_status >>

\* An error after some of the locks were taken: the same clean-up.
AcquireAllError(c) ==
  /\ mw_pc[c] = "acquire"
  /\ lock_idx[c] > 1
  /\ faults < MaxFaults
  /\ faults' = faults + 1
  /\ lock_table' = ReleasedOn(lock_table, TakenInCall(c))
  /\ taker' = TakerAfterRelease(lock_table, TakenInCall(c))
  /\ mw_pc' = [mw_pc EXCEPT ![c] = "failed"]
  /\ UNCHANGED << runArgs, guiVars, cacheVars, writesVars, testVars,
                  oracleVars, clientVars, engineVars, pc, localVars,
                  historyVars, results, clock, runVars, target_nodes,
                  lock_idx, node_idx, mw_status >>

\* Variant: the False returned by acquire_multi_node_lock is ignored and the
\* loop over the nodes begins.
ProceedNotAcquired(c) ==
  /\ mw_pc[c] = "failed"
  /\ mw_pc' = [mw_pc EXCEPT ![c] = "execute"]
  /\ node_idx' = [node_idx EXCEPT ![c] = 1]
  /\ UNCHANGED << runArgs, guiVars, cacheVars, writesVars, testVars,
                  oracleVars, clientVars, lock_table, faults,
                  engineVars, pc,
                  localVars, historyVars, results, clock, runVars,
                  target_nodes, lock_idx, mw_status, taker >>

\* "Failed to acquire locks on all nodes" is returned; the finally block
\* calls release_multi_node_lock(resource_id, nodes).
ReturnNotAcquired(c) ==
  /\ mw_pc[c] = "failed"
  /\ mw_status' = [mw_status EXCEPT ![c] = "failed"]
  /\ lock_table' = ReleasedOn(lock_table, NodeSet(target_nodes[c]))
  /\ taker' = TakerAfterRelease(lock_table, NodeSet(target_nodes[c]))
  /\ Returned(c)
  /\ UNCHANGED << runArgs, guiVars, cacheVars, writesVars, testVars,
                  oracleVars, clientVars, faults, engineVars, pc,
                  localVars,
                  historyVars, results, clock, runVars >>

\* One round of the loop: connect, START TRANSACTION, execute, commit.  After
\* the last node 'success' is returned and the finally block releases.
ExecuteOnNode(c) ==
  LET node == target_nodes[c][node_idx[c]] IN
  /\ mw_pc[c] = "execute"
  /\ db' = [db EXCEPT ![node] = NewAmount(c)]
  /\ IF node_idx[c] = Len(target_nodes[c])
     THEN /\ mw_status' = [mw_status EXCEPT ![c] = "success"]
          /\ lock_table' = ReleasedOn(lock_table, NodeSet(target_nodes[c]))
          /\ taker' = TakerAfterRelease(lock_table, NodeSet(target_nodes[c]))
          /\ Returned(c)
     ELSE /\ node_idx' = [node_idx EXCEPT ![c] = @ + 1]
          /\ UNCHANGED << mw_status, lock_table, taker, mw_pc,
                          target_nodes, lock_idx >>
  /\ UNCHANGED << runArgs, guiVars, cacheVars, writesVars,
                  testVars, oracleVars, clientVars, faults, row_lock,
                  pending, pc,
                  localVars, historyVars, results, clock, runVars >>

\* The round raises: rollback on this node, 'failed' is returned at once
\* (the nodes written before stay committed), the finally block releases.
ExecuteFails(c) ==
  /\ mw_pc[c] = "execute"
  /\ faults < MaxFaults
  /\ faults' = faults + 1
  /\ mw_status' = [mw_status EXCEPT ![c] = "failed"]
  /\ lock_table' = ReleasedOn(lock_table, NodeSet(target_nodes[c]))
  /\ taker' = TakerAfterRelease(lock_table, NodeSet(target_nodes[c]))
  /\ Returned(c)
  /\ UNCHANGED << runArgs, guiVars, cacheVars, writesVars, testVars,
                  oracleVars, clientVars, engineVars, pc, localVars,
                  historyVars, results, clock, runVars >>

\* Callers of replicate_write sharing the module's lock manager
InitMulti ==
  /\ isolation_level = "READ COMMITTED"
  /\ mode = "concurrent"
  /\ test_scenario = "update_only"
  /\ DriverIdle
  /\ OracleIdle
  /\ MultiIdle
  /\ TestIdle
  /\ CacheIdle
  /\ WritesIdle
  /\ GuiIdle

NextMulti ==
  \/ \E c \in Callers, source_node \in Nodes : ReplicateWrite(c, source_node)
  \/ \E c \in Callers, target_node \in Nodes : ExecuteWithLock(c, target_node)
  \/ \E c \in Callers : AcquireNext(c)
  \/ \E c \in Callers : AcquireAllTimeout(c)
  \/ \E c \in Callers : AcquireAllError(c)
  \/ \E c \in Callers : ReturnNotAcquired(c)
  \/ \E c \in Callers : ExecuteOnNode(c)
  \/ \E c \in Callers : ExecuteFails(c)
  \/ \E n \in Nodes : LeaseLapse(n)

SpecMulti == InitMulti /\ [][NextMulti]_vars

\* ------------------------------------------------ two opposite callers
\* execute_multi_node_write(query, params, resource_id, nodes) called
\* directly on nodes 1 and 2, by at most two callers, the second one with
\* the node list in the opposite order.
ExecuteMultiNodeWrite(c, nodes) ==
  /\ mw_pc[c] = "idle"
  /\ Cardinality({d \in Callers : mw_pc[d] # "idle"}) < 2
  /\ \A d \in Callers : target_nodes[d] # nodes
  /\ mw_pc' = [mw_pc EXCEPT ![c] = "acquire"]
  /\ target_nodes' = [target_nodes EXCEPT ![c] = nodes]
  /\ lock_idx' = [lock_idx EXCEPT ![c] = 1]
  /\ node_idx' = [node_idx EXCEPT ![c] = 0]
  /\ UNCHANGED << runArgs, guiVars, cacheVars, writesVars, testVars,
                  oracleVars, clientVars, lock_table, faults,
                  engineVars, pc,
                  localVars, historyVars, results, clock, runVars,
                  mw_status, taker >>

\* One step of caller c's call.
CallerStep(c) ==
  \/ AcquireNext(c)
  \/ AcquireAllTimeout(c)
  \/ ReturnNotAcquired(c)
  \/ ExecuteOnNode(c)

NextOpposite ==
  \/ \E c \in Callers, nodes \in {<< 1, 2 >>, << 2, 1 >>} :
       ExecuteMultiNodeWrite(c, nodes)
  \/ \E c \in Callers : AcquireNext(c)
  \/ \E c \in Callers : AcquireAllTimeout(c)
  \/ \E c \in Callers : ReturnNotAcquired(c)
  \/ \E c \in Callers : ExecuteOnNode(c)
  \/ \E c \in Callers : AcquireAllError(c)
  \/ \E c \in Callers : ExecuteFails(c)
  \/ \E n \in Nodes : LeaseLapse(n)

\* A caller's thread keeps running: a poll of acquire_lock ends with the
\* lock or with the timeout, and the statements after it are executed.
SpecOpposite ==
  /\ InitMulti
  /\ [][NextOpposite]_vars
  /\ \A c \in Callers : WF_vars(CallerStep(c))

\* --------------------------------------- DistributedLockManager's clients
\* Threads that call the lock manager of their process.  The managers of
\* case3_test.py and of db_config share the lock table and differ in their
\* owner identity; threads of one process share the manager.
OwnerOf(u) == IF u % 2 = 1 THEN CaseOwner ELSE AppOwner

\* acquire_lock(resource_id, n, timeout) is entered and polls.
BeginAcquire(u, n) ==
  /\ dl_pc[u] = "idle"
  /\ dl_pc' = [dl_pc EXCEPT ![u] = "waiting"]
  /\ dl_node' = [dl_node EXCEPT ![u] = n]
  /\ dl_ret' = [dl_ret EXCEPT ![u] = "none"]
  /\ UNCHANGED << runArgs, guiVars, cacheVars, writesVars,
                  testVars, oracleVars, callVars, lock_table, faults,
                  engineVars, pc, localVars, historyVars, results, clock,
                  runVars, dl_taker >>

\* Variant: a caller whose timeout elapsed takes the lock over.
AcquireTakesOver(u) ==
  /\ dl_pc[u] = "waiting"
  /\ ~LockFree(lock_table, dl_node[u])
  /\ lock_table' = acquire_lock(lock_table, dl_node[u], OwnerOf(u))
  /\ dl_taker' = [dl_taker EXCEPT ![dl_node[u]] = u]
  /\ dl_pc' = [dl_pc EXCEPT ![u] = "idle"]
  /\ dl_ret' = [dl_ret EXCEPT ![u] = "true"]
  /\ dl_node' = [dl_node EXCEPT ![u] = 0]
  /\ UNCHANGED << runArgs, guiVars, cacheVars, writesVars, testVars,
                  oracleVars, callVars, faults, engineVars, pc,
                  localVars, historyVars, results, clock, runVars >>

\* The lock stayed held until the timeout: acquire_lock returns False.
AcquireTimesOut(u) ==
  /\ dl_pc[u] = "waiting"
  /\ ~LockFree(lock_table, dl_node[u])
  /\ dl_pc' = [dl_pc EXCEPT ![u] = "idle"]
  /\ dl_ret' = [dl_ret EXCEPT ![u] = "false"]
  /\ dl_node' = [dl_node EXCEPT ![u] = 0]
  /\ UNCHANGED << runArgs, guiVars, cacheVars, writesVars,
                  testVars, oracleVars, callVars, lock_table, faults,
                  engineVars, pc, localVars, historyVars, results, clock,
                  runVars, dl_taker >>

\* Variant: the poll never notices that the lock is free.
AcquireKeepsPolling(u) ==
  /\ dl_pc[u] = "waiting"
  /\ LockFree(lock_table, dl_node[u])
  /\ UNCHANGED vars

\* The entry is absent or its lease has lapsed: acquire_lock inserts the
\* caller's entry and returns True.
AcquireSucceeds(u) ==
  /\ dl_pc[u] = "waiting"
  /\ LockFree(lock_table, dl_node[u])
  /\ lock_table' = acquire_lock(lock_table, dl_node[u], OwnerOf(u))
  /\ dl_taker' = [dl_taker EXCEPT ![dl_node[u]] = u]
  /\ dl_pc' = [dl_pc EXCEPT ![u] = "idle"]
  /\ dl_ret' = [dl_ret EXCEPT ![u] = "true"]
  /\ dl_node' = [dl_node EXCEPT ![u] = 0]
  /\ UNCHANGED << runArgs, guiVars, cacheVars, writesVars, testVars,
                  oracleVars, callVars, faults, engineVars, pc,
                  localVars, historyVars, results, clock, runVars >>

\* The entries that are no longer in the table are nobody's.
TakerOfRemaining(t) ==
  [n \in Nodes |-> IF t[n] = NoLock THEN 0 ELSE dl_taker[n]]

\* Variant: release_lock removes the entry whoever holds it.
ReleaseAnyones(u, n) ==
  /\ dl_pc[u] = "idle"
  /\ dl_ret' = [dl_ret EXCEPT ![u] = "released"]
  /\ lock_table' = [lock_table EXCEPT ![n] = NoLock]
  /\ dl_taker' = [dl_taker EXCEPT ![n] = 0]
  /\ UNCHANGED << runArgs, guiVars, cacheVars, writesVars, testVars,
                  oracleVars, callVars, faults, engineVars, pc,
                  localVars, historyVars, results, clock, runVars, dl_pc,
                  dl_node >>

\* release_lock(resource_id, n), whether or not the caller acquired before
Release(u, n) ==
  /\ dl_pc[u] = "idle"
  /\ dl_ret' = [dl_ret EXCEPT ![u] = "released"]
  /\ lock_table' = release_lock(lock_table, n, OwnerOf(u))
  /\ dl_taker' = TakerOfRemaining(release_lock(lock_table, n, OwnerOf(u)))
  /\ UNCHANGED << runArgs, guiVars, cacheVars, writesVars, testVars,
                  oracleVars, callVars, faults, engineVars, pc,
                  localVars, historyVars, results, clock, runVars, dl_pc,
                  dl_node >>

\* Variant: the sweep stops after the lowest node.
WithoutOwnerOnFirstNode(t, owner) ==
  [n \in Nodes |-> IF n = 1 /\ t[n] # NoLock /\ t[n].holder = owner
                   THEN NoLock ELSE t[n]]

\* The table without the entries of one owner.
WithoutOwner(t, owner) ==
  [n \in Nodes |-> IF t[n] # NoLock /\ t[n].holder = owner
                   THEN NoLock ELSE t[n]]

\* release_all_locks(): cleanup() and cleanup_locks()
ReleaseAllLocks(u) ==
  /\ dl_pc[u] = "idle"
  /\ dl_ret' = [dl_ret EXCEPT ![u] = "released_all"]
  /\ lock_table' = WithoutOwner(lock_table, OwnerOf(u))
  /\ dl_taker' = TakerOfRemaining(WithoutOwner(lock_table, OwnerOf(u)))
  /\ UNCHANGED << runArgs, guiVars, cacheVars, writesVars, testVars,
                  oracleVars, callVars, faults, engineVars, pc,
                  localVars, historyVars, results, clock, runVars, dl_pc,
                  dl_node >>

\* A thread that holds a lock stops for good without releasing it.
Crash(u) ==
  /\ dl_pc[u] = "idle"
  /\ \E n \in Nodes : dl_taker[n] = u
  /\ dl_pc' = [dl_pc EXCEPT ![u] = "crashed"]
  /\ dl_ret' = [dl_ret EXCEPT ![u] = "none"]
  /\ UNCHANGED << runArgs, guiVars, cacheVars, writesVars,
                  testVars, oracleVars, callVars, lock_table, faults,
                  engineVars, pc, localVars, historyVars, results, clock,
                  runVars, dl_node, dl_taker >>

\* Some caller waiting for the lock of node n gets it.
AcquiredOn(n) == \E u \in Clients : dl_node[u] = n /\ AcquireSucceeds(u)

InitDLM ==
  /\ isolation_level = "READ COMMITTED"
  /\ mode = "concurrent"
  /\ test_scenario = "update_only"
  /\ DriverIdle
  /\ OracleIdle
  /\ MultiIdle
  /\ TestIdle
  /\ CacheIdle
  /\ WritesIdle
  /\ GuiIdle

NextDLM ==
  \/ \E u \in Clients, n \in Nodes : BeginAcquire(u, n)
  \/ \E u \in Clients : AcquireSucceeds(u)
  \/ \E u \in Clients : AcquireTimesOut(u)
  \/ \E u \in Clients, n \in Nodes : Release(u, n)
  \/ \E u \in Clients : ReleaseAllLocks(u)
  \/ \E u \in Clients : Crash(u)
  \/ \E n \in Nodes : LeaseLapse(n)

SpecDLM == InitDLM /\ [][NextDLM]_vars

\* Callers that acquire and release, with no crash and no lapse of a lease.
NextWaiters ==
  \/ \E u \in Clients, n \in Nodes : BeginAcquire(u, n)
  \/ \E u \in Clients : AcquireSucceeds(u)
  \/ \E u \in Clients : AcquireTimesOut(u)
  \/ \E u \in Clients, n \in Nodes : Release(u, n)

\* The poll of acquire_lock goes on: a free lock with a caller polling for
\* it is taken by some caller.
SpecWaiters ==
  /\ InitDLM
  /\ [][NextWaiters]_vars
  /\ \A n \in Nodes : WF_vars(AcquiredOn(n))

\* ------------------------------------------- reader/writer isolation tests
\* _test_read_write_concurrency (test_runner.py), run at every isolation
\* level, and the two dirty-read tests of isolation_level_tests.py.
TestCases == {"read_write_concurrency", "dirty_reads_read_uncommitted",
              "dirty_read_prevention_read_committed"}

\* test_configs: 'nodes': [1, 2] and 'nodes': [1, 3]
TestConfigs == {<< 1, 2 >>, << 1, 3 >>}

\* The isolation level a test function sets on its nodes.
LevelOf(tc, level) ==
  IF tc = "dirty_reads_read_uncommitted" THEN "READ UNCOMMITTED"
  ELSE IF tc = "dirty_read_prevention_read_committed" THEN "READ COMMITTED"
  ELSE level

\* new_value = float(initial_value) + 1000.00 / 2000.00 / 3000.00
NewValueOf(tc, initial) ==
  IF tc = "read_write_concurrency" THEN initial + 100000
  ELSE IF tc = "dirty_reads_read_uncommitted" THEN initial + 200000
  ELSE initial + 300000

\* Amounts the row of a node can hold when a test starts.
RowAmounts ==
  {BaselineAmount} \cup {NewValueOf(tc, BaselineAmount) : tc \in TestCases}

\* SELECT * FROM trans WHERE trans_id = %s on node n, by a session that has
\* no change of its own pending.
\* get_connection(node_id, persistent_key) for a new key: a new session,
\* which starts with the server's global isolation level.  A level set by
\* set_session_isolation_level(node_id, level) without a key went to a
\* session that was closed when that call returned.
SessionLevel(n) == global_level[n]

\* get_transaction_record(node_id, trans_id, connection_key) on the keyed
\* connection of a thread
get_transaction_record(n) ==
  IF SessionLevel(n) = "READ UNCOMMITTED" /\ pending[n] # NoPending
  THEN pending[n]
  ELSE db[n]

\* set_global_isolation_level on every node of the test (the isolation
\* level tests); test_runner.py sets the session level only.
GlobalAfterSetup(tc, nodes, level) ==
  IF tc = "read_write_concurrency" THEN global_level
  ELSE [n \in Nodes |->
          IF n \in {nodes[1], nodes[2]} THEN level ELSE global_level[n]]

\* update_transaction_record(nodes[0], trans_id, initial_value) followed by
\* commit_transaction(nodes[0]), both without a connection key: the UPDATE
\* runs with auto_commit=False on a connection of its own that
\* get_connection closes on exit, and the COMMIT runs on another new
\* connection; the row is as it was.
RestoredUnkeyed(d, n, value) == d

\* test_runner.py, "Check for dirty reads": the anomalies logged for the
\* values the reader thread collected.
DirtyReadCheck(values, new_val, level) ==
  IF \E value \in values : value = new_val /\ level # "READ UNCOMMITTED"
  THEN {"Dirty Read"}
  ELSE {}

\* isolation_level_tests.py: what reader_transaction logs for the value read
ReaderCheck(tc, read_value, new_val) ==
  IF read_value # new_val THEN {}
  ELSE IF tc = "dirty_reads_read_uncommitted" THEN {"Dirty Read Detected"}
  ELSE IF tc = "dirty_read_prevention_read_committed"
       THEN {"Dirty Read in READ COMMITTED"}
       ELSE {}

\* The row of trans_id on node n, a separate server, holds another amount.
NodeHolds(n, amount) ==
  /\ test_case = "none"
  /\ rt_pc = "threads" /\ launched = 0
  /\ db[n] = BaselineAmount
  /\ amount # BaselineAmount
  /\ db' = [db EXCEPT ![n] = amount]
  /\ UNCHANGED << runArgs, guiVars, cacheVars, writesVars,
                  testVars, lock_table, faults, row_lock, pending,
                  pc, localVars, historyVars, results, clock, runVars,
                  oracleVars, multiVars >>

\* The test function up to thread.start(): start_test_case, the isolation
\* level, the initial value read on nodes[0].
StartTest(tc, nodes) ==
  /\ test_case = "none"
  /\ isolation_level = LevelOf(tc, isolation_level)
  /\ test_case' = tc
  /\ test_nodes' = nodes
  /\ initial_value' = db[nodes[1]]
  /\ new_value' = NewValueOf(tc, db[nodes[1]])
  /\ writer_pc' = "start"
  /\ reader_pc' = "start"
  /\ global_level' = GlobalAfterSetup(tc, nodes, isolation_level)
  /\ UNCHANGED << runArgs, guiVars, cacheVars, writesVars,
                  read_values, in_flight_read, writer_at_read,
                  anomalies, lock_table, faults, engineVars, pc, localVars,
                  historyVars, results, clock, runVars, oracleVars,
                  multiVars >>

\* Writer thread: START TRANSACTION on nodes[0] (and, where the UPDATE
\* carries "AND SLEEP(n) = 0", the sleep that precedes the change).
WriterBegin ==
  /\ writer_pc = "start"
  /\ writer_pc' = "open"
  /\ UNCHANGED << runArgs, guiVars, cacheVars, writesVars, global_level,
                  test_case, test_nodes, initial_value, new_value,
                  reader_pc, read_values, in_flight_read, writer_at_read,
                  anomalies, lock_table, faults, engineVars, pc, localVars,
                  historyVars, results, clock, runVars, oracleVars,
                  multiVars >>

\* The UPDATE changes the row on nodes[0]; the transaction stays open.
WriterUpdate ==
  /\ writer_pc = "open"
  /\ pending' = [pending EXCEPT ![test_nodes[1]] = new_value]
  /\ writer_pc' = "updated"
  /\ UNCHANGED << runArgs, guiVars, cacheVars, writesVars, global_level,
                  test_case, test_nodes, initial_value, new_value,
                  reader_pc, read_values, in_flight_read, writer_at_read,
                  anomalies, lock_table, faults, db, row_lock, pc,
                  localVars, historyVars, results, clock, runVars,
                  oracleVars, multiVars >>

\* COMMIT, or ROLLBACK in the dirty-read prevention test.
WriterEnd ==
  /\ writer_pc = "updated"
  /\ db' = IF test_case = "dirty_read_prevention_read_committed" THEN db
           ELSE [db EXCEPT ![test_nodes[1]] = pending[test_nodes[1]]]
  /\ pending' = [pending EXCEPT ![test_nodes[1]] = NoPending]
  /\ writer_pc' = "done"
  /\ UNCHANGED << runArgs, guiVars, cacheVars, writesVars, global_level,
                  test_case, test_nodes, initial_value, new_value,
                  reader_pc, read_values, in_flight_read, writer_at_read,
                  anomalies, lock_table, faults, row_lock, pc, localVars,
                  historyVars, results, clock, runVars, oracleVars,
                  multiVars >>

\* Reader thread: its start delay and START TRANSACTION on nodes[1].
ReaderBegin ==
  /\ reader_pc = "start"
  /\ reader_pc' = "read1"
  /\ UNCHANGED << runArgs, guiVars, cacheVars, writesVars, global_level,
                  test_case, test_nodes, initial_value, new_value,
                  writer_pc, read_values, in_flight_read, writer_at_read,
                  anomalies, lock_table, faults, engineVars, pc, localVars,
                  historyVars, results, clock, runVars, oracleVars,
                  multiVars >>

\* for read_num in range(4) in test_runner.py, one read in the other tests;
\* COMMIT after the last one.
AfterRead(tc, position) ==
  IF tc # "read_write_concurrency" THEN "done"
  ELSE IF position = "read1" THEN "read2"
  ELSE IF position = "read2" THEN "read3"
  ELSE IF position = "read3" THEN "read4"
  ELSE "done"

\* One read of the reader thread on nodes[1]; the dirty-read tests compare
\* the value with new_value at once.
ReaderRead ==
  LET n == test_nodes[2]
      read_value == get_transaction_record(n)
  IN /\ reader_pc \in {"read1", "read2", "read3", "read4"}
     /\ read_values' = read_values \cup {read_value}
     /\ in_flight_read' =
          (in_flight_read
             \/ (SessionLevel(n) = "READ UNCOMMITTED"
                   /\ pending[n] # NoPending))
     /\ writer_at_read' = writer_at_read \cup {writer_pc}
     /\ anomalies' = anomalies \cup ReaderCheck(test_case, read_value,
                                                new_value)
     /\ reader_pc' = AfterRead(test_case, reader_pc)
     /\ UNCHANGED << runArgs, guiVars, cacheVars, writesVars, global_level,
                     test_case,
                     test_nodes, initial_value,
                     new_value, writer_pc, lock_table, faults, engineVars,
                     pc, localVars, historyVars, results, clock, runVars,
                     oracleVars, multiVars >>

\* Both threads joined: the check for dirty reads of test_runner.py, the
\* restore of the initial value, end_test_case.
EndTestCase ==
  /\ writer_pc = "done"
  /\ reader_pc = "done"
  /\ anomalies' =
       IF test_case = "read_write_concurrency"
       THEN anomalies \cup DirtyReadCheck(read_values, new_value,
                                          isolation_level)
       ELSE anomalies
  /\ db' = IF test_case = "dirty_read_prevention_read_committed" THEN db
           ELSE RestoredUnkeyed(db, test_nodes[1], initial_value)
  /\ writer_pc' = "ended"
  /\ reader_pc' = "ended"
  /\ UNCHANGED << runArgs, guiVars, cacheVars, writesVars, global_level,
                  test_case, test_nodes, initial_value, new_value,
                  read_values, in_flight_read, writer_at_read, lock_table,
                  faults, row_lock, pending, pc, localVars, historyVars,
                  results, clock, runVars, oracleVars, multiVars >>

InitTests ==
  /\ isolation_level \in IsolationLevels
  /\ mode = "concurrent"
  /\ test_scenario = "update_only"
  /\ DriverIdle
  /\ OracleIdle
  /\ MultiIdle
  /\ TestIdle
  /\ CacheIdle
  /\ WritesIdle
  /\ GuiIdle

NextTests ==
  \/ \E n \in Nodes, amount \in RowAmounts : NodeHolds(n, amount)
  \/ \E tc \in TestCases, nodes \in TestConfigs : StartTest(tc, nodes)
  \/ WriterBegin
  \/ WriterUpdate
  \/ WriterEnd
  \/ ReaderBegin
  \/ ReaderRead
  \/ EndTestCase

SpecTests == InitTests /\ [][NextTests]_vars

\* ------------------------------------------------- db_config query cache
\* Seconds the model's clock runs for.
MaxTime == 4

\* CACHE_ENABLED and CACHE_TTL_SECONDS as configured by default ('True' and
\* '3600'); the model counts in units of 1200 s.
CACHE_ENABLED == TRUE
CACHE_TTL_SECONDS == 3

\* ttl values callers pass (fetch_data's default is 9999, the dashboards
\* pass shorter ones)
Ttls == {1, 9}

\* _generate_cache_key(query, node) for the one query text of the model:
\* the hash of "node{node}:{query}" differs exactly when node differs.
generate_cache_key(node) == node

\* _is_cache_valid(cache_entry) read at time t
is_cache_valid(cache_entry, t) ==
  IF ~CACHE_ENABLED THEN FALSE
  ELSE IF cache_entry.timestamp = -1 THEN FALSE
  ELSE (t - cache_entry.timestamp) < CACHE_TTL_SECONDS

\* The cache lookup both functions start with, and the store they end with.
CachedFetch(fn, node, ttl) ==
  LET cache_key == generate_cache_key(node)
      cache_entry == query_cache[cache_key]
      present == CACHE_ENABLED /\ cache_entry # NoEntry
      hit == present /\ is_cache_valid(cache_entry, now)
  IN  /\ last_call' = [fn |-> fn, node |-> node, ttl |-> ttl,
                       age |-> IF present THEN now - cache_entry.timestamp
                               ELSE -1,
                       from_cache |-> hit,
                       data |-> IF hit THEN cache_entry.data ELSE db[node]]
      /\ query_cache' =
           IF hit \/ ~CACHE_ENABLED THEN query_cache
           ELSE [query_cache EXCEPT
                   ![cache_key] = [timestamp |-> now, data |-> db[node]]]

\* fetch_data(query, node, ttl) outside Streamlit
FetchData(node, ttl) ==
  /\ CachedFetch("fetch_data", node, ttl)
  /\ UNCHANGED << runArgs, guiVars, writesVars, testVars, now, lock_table,
                  faults,
                  engineVars,
                  pc, localVars, historyVars, results, clock, runVars,
                  oracleVars, multiVars >>

\* execute_multi_statement_query(query, node, ttl)
ExecuteMultiStatementQuery(node, ttl) ==
  /\ CachedFetch("execute_multi_statement_query", node, ttl)
  /\ UNCHANGED << runArgs, guiVars, writesVars, testVars, now, lock_table,
                  faults,
                  engineVars,
                  pc, localVars, historyVars, results, clock, runVars,
                  oracleVars, multiVars >>

\* The database cannot be reached: an expired entry has been deleted, the
\* call raises and nothing is stored.
FetchRaises(node, ttl) ==
  LET cache_key == generate_cache_key(node)
      cache_entry == query_cache[cache_key]
  IN  /\ faults < MaxFaults
      /\ ~(CACHE_ENABLED /\ cache_entry # NoEntry
             /\ is_cache_valid(cache_entry, now))
      /\ faults' = faults + 1
      /\ query_cache' = [query_cache EXCEPT ![cache_key] = NoEntry]
      /\ UNCHANGED << runArgs, guiVars, writesVars, testVars, now, last_call,
                      lock_table,
                      engineVars, pc, localVars, historyVars, results,
                      clock, runVars, oracleVars, multiVars >>

\* A second passes.
Tick ==
  /\ now < MaxTime
  /\ now' = now + 1
  /\ UNCHANGED << runArgs, guiVars, writesVars, testVars, query_cache,
                  last_call,
                  lock_table,
                  faults, engineVars, pc, localVars, historyVars, results,
                  clock, runVars, oracleVars, multiVars >>

InitCache ==
  /\ isolation_level = "READ COMMITTED"
  /\ mode = "concurrent"
  /\ test_scenario = "update_only"
  /\ DriverIdle
  /\ OracleIdle
  /\ MultiIdle
  /\ TestIdle
  /\ CacheIdle
  /\ WritesIdle
  /\ GuiIdle

NextCache ==
  \/ \E node \in Nodes, ttl \in Ttls : FetchData(node, ttl)
  \/ \E node \in Nodes, ttl \in Ttls : ExecuteMultiStatementQuery(node, ttl)
  \/ \E node \in Nodes, ttl \in Ttls : FetchRaises(node, ttl)
  \/ Tick

SpecCache == InitCache /\ [][NextCache]_vars

\* --------------------------------------- test_runner: concurrent writes
\* increments = [500.00, 750.00]
Increment(i) == IF i = 1 THEN 50000 ELSE 75000

\* Everything a write thread's step leaves alone.
WritesFrame ==
  UNCHANGED << runArgs, guiVars, cacheVars, test_case, test_nodes,
               initial_value,
               new_value, writer_pc, reader_pc, read_values,
               in_flight_read, writer_at_read, global_level, lock_table,
               row_lock, pc, localVars, historyVars, results, clock,
               runVars, oracleVars, multiVars >>

\* _test_concurrent_writes up to thread.start(): the initial value is read
\* on nodes[0]; thread i writes on nodes[i-1].
StartWrites(nodes) ==
  /\ test_case = "none"
  /\ cw_pc = [i \in 1 .. 2 |-> "idle"]
  /\ test_case' = "concurrent_writes"
  /\ test_nodes' = nodes
  /\ initial_value' = db[nodes[1]]
  /\ cw_pc' = [i \in 1 .. 2 |-> "start"]
  /\ UNCHANGED << runArgs, guiVars, cacheVars, new_value, writer_pc, reader_pc,
                  read_values, in_flight_read, writer_at_read, anomalies,
                  global_level, cw_current, cw_update_ok, cw_success,
                  successful_writes, lock_table, faults, engineVars, pc,
                  localVars, historyVars, results, clock, runVars,
                  oracleVars, multiVars >>

\* START TRANSACTION and SELECT ... FOR UPDATE on the thread's own node
WriteThreadRead(i) ==
  /\ cw_pc[i] = "start"
  /\ cw_current' = [cw_current EXCEPT ![i] = db[test_nodes[i]]]
  /\ cw_pc' = [cw_pc EXCEPT ![i] = "read"]
  /\ UNCHANGED << cw_update_ok, cw_success, successful_writes, anomalies,
                  faults, db, pending >>
  /\ WritesFrame

\* The UPDATE of new_value = current_value + increment
WriteThreadUpdate(i) ==
  /\ cw_pc[i] = "read"
  /\ pending' = [pending EXCEPT
                   ![test_nodes[i]] = cw_current[i] + Increment(i)]
  /\ cw_update_ok' = [cw_update_ok EXCEPT ![i] = TRUE]
  /\ cw_pc' = [cw_pc EXCEPT ![i] = "updated"]
  /\ UNCHANGED << cw_current, cw_success, successful_writes, anomalies,
                  faults, db >>
  /\ WritesFrame

\* The UPDATE fails on the server: execute_query catches the error and
\* returns {'success': False}; update_result is logged and not looked at.
WriteThreadUpdateFails(i) ==
  /\ cw_pc[i] = "read"
  /\ faults < MaxFaults
  /\ faults' = faults + 1
  /\ cw_pc' = [cw_pc EXCEPT ![i] = "updated"]
  /\ UNCHANGED << cw_current, cw_update_ok, cw_success, successful_writes,
                  anomalies, db, pending >>
  /\ WritesFrame

\* COMMIT; results[thread_name]['success'] = commit_result['success']
WriteThreadCommit(i) ==
  LET n == test_nodes[i] IN
  /\ cw_pc[i] = "updated"
  /\ db' = IF pending[n] # NoPending THEN [db EXCEPT ![n] = pending[n]]
           ELSE db
  /\ pending' = [pending EXCEPT ![n] = NoPending]
  /\ cw_success' = [cw_success EXCEPT ![i] = "true"]
  /\ cw_pc' = [cw_pc EXCEPT ![i] = "done"]
  /\ UNCHANGED << cw_current, cw_update_ok, successful_writes, anomalies,
                  faults >>
  /\ WritesFrame

\* abs(actual_value - expected_value) > 0.01, with the final value read on
\* nodes[0] and expected_value = initial_value + sum(increments)
LostUpdateCheck(actual_value, expected_value) ==
  IF actual_value - expected_value > ToleranceCents
       \/ expected_value - actual_value > ToleranceCents
  THEN {"Lost Update"}
  ELSE {}

\* Both threads joined: the final read, the analysis, the restore,
\* end_test_case.
AnalyzeWrites ==
  /\ \A i \in 1 .. 2 : cw_pc[i] = "done"
  /\ successful_writes = -1
  /\ successful_writes' =
       Cardinality({i \in 1 .. 2 : cw_success[i] = "true"})
  /\ anomalies' = anomalies \cup
       LostUpdateCheck(db[test_nodes[1]],
                       initial_value + Increment(1) + Increment(2))
  /\ db' = RestoredUnkeyed(db, test_nodes[1], initial_value)
  /\ UNCHANGED << cw_pc, cw_current, cw_update_ok, cw_success, faults,
                  pending >>
  /\ WritesFrame

InitWrites ==
  /\ isolation_level \in IsolationLevels
  /\ mode = "concurrent"
  /\ test_scenario = "update_only"
  /\ DriverIdle
  /\ OracleIdle
  /\ MultiIdle
  /\ TestIdle
  /\ CacheIdle
  /\ WritesIdle
  /\ GuiIdle

NextWrites ==
  \/ \E n \in Nodes, amount \in RowAmounts : NodeHolds(n, amount)
  \/ \E nodes \in TestConfigs : StartWrites(nodes)
  \/ \E i \in 1 .. 2 : WriteThreadRead(i)
  \/ \E i \in 1 .. 2 : WriteThreadUpdate(i)
  \/ \E i \in 1 .. 2 : WriteThreadUpdateFails(i)
  \/ \E i \in 1 .. 2 : WriteThreadCommit(i)
  \/ AnalyzeWrites

SpecWrites == InitWrites /\ [][NextWrites]_vars

\* ------------------------------------------ gui/app.py transaction manager
\* Dedicated connections one run of the model opens.
MaxPending == 3

Pages == {"view", "add"}

\* Rows the trans table of each node holds when the sessions start: node 1
\* holds every row, node 2 the rows of even accounts and node 3 the rows
\* of odd accounts; a row is in one of the two partitions.
InitialIds ==
  {[n \in Nodes |-> IF n = 1 THEN a \cup b ELSE IF n = 2 THEN a ELSE b] :
     a \in {{2}, {2, 4}}, b \in {{1}, {1, 3}}}

get_node_for_account(account_id) ==
  IF account_id % 2 = 0 THEN 2 ELSE 3

\* Everything a click in the transaction manager leaves alone.
GuiFrame ==
  UNCHANGED << runArgs, cacheVars, writesVars, testVars, lock_table,
               engineVars, pc, localVars, historyVars, results, clock,
               runVars, oracleVars, multiVars >>

\* The pending inserts of every session on node n.
PendingIds(n) ==
  UNION {{active_transactions[s][i].trans_id :
            i \in {j \in 1 .. Len(active_transactions[s]) :
                     /\ active_transactions[s][j].page = "add"
                     /\ active_transactions[s][j].node = n}} :
           s \in Sessions}

SetMax(S) == IF S = {} THEN 0 ELSE CHOOSE x \in S : \A y \in S : y <= x

\* SELECT COALESCE(MAX(trans_id), 0) on the insert's own connection: the
\* committed rows of the target node, and under READ UNCOMMITTED the
\* pending ones too.
MaxTransId(n, level) ==
  SetMax(trans_ids[n] \cup
           (IF level = "READ UNCOMMITTED" THEN PendingIds(n) ELSE {}))

\* The three appends that end a Fetch or Insert click.
Appended(s, txn) ==
  /\ transaction_connections' =
       [transaction_connections EXCEPT
          ![s] = Append(@, [tag |-> opened + 1, state |-> "open"])]
  /\ transaction_cursors' =
       [transaction_cursors EXCEPT
          ![s] = Append(@, [tag |-> opened + 1, state |-> "open"])]
  /\ active_transactions' = [active_transactions EXCEPT ![s] = Append(@, txn)]
  /\ opened' = opened + 1
  /\ last_click' = [last_click EXCEPT ![s] = "none"]

\* "Fetch Data" on the View page: a READ transaction is left open.
FetchClick(s, node) ==
  /\ opened < MaxPending
  /\ Appended(s, [page |-> "view", node |-> node, trans_id |-> 0,
                  tag |-> opened + 1])
  /\ UNCHANGED << trans_ids, faults >>
  /\ GuiFrame

\* "Insert Transaction" on the Add page: next_trans_id is MAX(trans_id) + 1
\* of the target node; the INSERT waits for a pending row with the same
\* key and fails, and then nothing is appended.
InsertClick(s, account_id, level) ==
  LET target_node == get_node_for_account(account_id)
      next_trans_id == MaxTransId(target_node, level) + 1
  IN  /\ opened < MaxPending
      /\ next_trans_id \notin PendingIds(target_node)
      /\ Appended(s, [page |-> "add", node |-> target_node,
                      trans_id |-> next_trans_id, tag |-> opened + 1])
      /\ UNCHANGED << trans_ids, faults >>
      /\ GuiFrame

\* Indices of the transactions of a page, in list order.
PageIndices(s, page) ==
  {i \in 1 .. Len(active_transactions[s]) :
     active_transactions[s][i].page = page}

\* The list without the entries at the indices of I.
Without(list, I) ==
  LET keep == {i \in 1 .. Len(list) : i \notin I}
      nth(k) == CHOOSE i \in keep :
                  Cardinality({j \in keep : j < i}) = k - 1
  IN  [k \in 1 .. Cardinality(keep) |-> list[nth(k)]]

\* conn.commit() / conn.rollback(), cursor.close(), conn.close() on the
\* entries at the indices of I.
Closed(list, I) ==
  [i \in 1 .. Len(list) |->
     IF i \in I THEN [list[i] EXCEPT !.state = "closed"] ELSE list[i]]

\* The loop raised before "Remove in reverse order": the lists keep every
\* entry, the ones already closed included.
KeptUpTo(list, I) == Closed(list, I)

\* A Commit or Rollback click on a page: every transaction of the page is
\* ended and its connection closed, then the entries are deleted.
EndClick(s, page, commit) ==
  LET I == PageIndices(s, page) IN
  /\ I # {}
  /\ \A i \in I : transaction_connections[s][i].state = "open"
  /\ trans_ids' =
       IF commit /\ page = "add"
       THEN [n \in Nodes |->
               trans_ids[n] \cup
                 {active_transactions[s][i].trans_id :
                    i \in {j \in I : active_transactions[s][j].node = n}}]
       ELSE trans_ids
  /\ active_transactions' =
       [active_transactions EXCEPT ![s] = Without(@, I)]
  /\ transaction_connections' =
       [transaction_connections EXCEPT ![s] = Without(@, I)]
  /\ transaction_cursors' =
       [transaction_cursors EXCEPT ![s] = Without(@, I)]
  /\ last_click' = [last_click EXCEPT ![s] = page]
  /\ UNCHANGED << opened, faults >>
  /\ GuiFrame

\* The same click when conn.commit() or conn.rollback() of the k-th
\* transaction of the page raises, because of a fault or because its
\* connection is already closed: the earlier ones are ended and closed,
\* "Commit failed" is shown and the lists are not touched.
EndClickRaises(s, page, commit, k) ==
  LET I == PageIndices(s, page)
      before_k == {i \in I : Cardinality({j \in I : j < i}) < k - 1}
      kth == {i \in I : Cardinality({j \in I : j < i}) = k - 1}
  IN  /\ k \in 1 .. Cardinality(I)
      /\ \A i \in before_k : transaction_connections[s][i].state = "open"
      /\ \/ /\ \A i \in kth : transaction_connections[s][i].state = "open"
            /\ faults < MaxFaults
            /\ faults' = faults + 1
         \/ /\ \E i \in kth : transaction_connections[s][i].state = "closed"
            /\ faults' = faults
      /\ trans_ids' =
           IF commit /\ page = "add"
           THEN [n \in Nodes |->
                   trans_ids[n] \cup
                     {active_transactions[s][i].trans_id :
                        i \in {j \in before_k :
                                 active_transactions[s][j].node = n}}]
           ELSE trans_ids
      /\ transaction_connections' =
           [transaction_connections EXCEPT ![s] = KeptUpTo(@, before_k)]
      /\ transaction_cursors' =
           [transaction_cursors EXCEPT ![s] = KeptUpTo(@, before_k)]
      /\ active_transactions' = active_transactions
      /\ last_click' = [last_click EXCEPT ![s] = page]
      /\ UNCHANGED opened
      /\ GuiFrame

InitGui ==
  /\ isolation_level = "READ COMMITTED"
  /\ mode = "concurrent"
  /\ test_scenario = "update_only"
  /\ DriverIdle
  /\ OracleIdle
  /\ MultiIdle
  /\ TestIdle
  /\ CacheIdle
  /\ WritesIdle
  /\ active_transactions = [s \in Sessions |-> << >>]
  /\ transaction_connections = [s \in Sessions |-> << >>]
  /\ transaction_cursors = [s \in Sessions |-> << >>]
  /\ trans_ids \in InitialIds
  /\ opened = 0
  /\ last_click = [s \in Sessions |-> "none"]

NextGui ==
  \/ \E s \in Sessions, node \in Nodes : FetchClick(s, node)
  \/ \E s \in Sessions, account_id \in 1 .. 2,
        level \in {"READ UNCOMMITTED", "READ COMMITTED"} :
       InsertClick(s, account_id, level)
  \/ \E s \in Sessions, page \in Pages, commit \in BOOLEAN :
       EndClick(s, page, commit)
  \/ \E s \in Sessions, page \in Pages, commit \in BOOLEAN,
        k \in 1 .. MaxPending :
       EndClickRaises(s, page, commit, k)

SpecGui == InitGui /\ [][NextGui]_vars

TypeOK ==
  /\ isolation_level \in IsolationLevels
  /\ mode \in {"concurrent", "sequential"}
  /\ test_scenario \in {"update_only", "mixed"}
  /\ \A n \in Nodes : lock_table[n].holder \in {"", CaseOwner, AppOwner}
  /\ faults \in 0 .. MaxFaults
  /\ \A n \in Nodes : row_lock[n] \in {0} \cup Workers
  /\ \A w \in Workers :
       pc[w] \in {"idle", "acquire", "check", "select", "mutate", "dwell",
                  "except", "done"}
  /\ \A w \in Workers : results[w].status \in {"NONE", "SUCCESS", "FAILED"}
  /\ launched \in 0 .. NumWorkers
  /\ rt_pc \in {"threads", "restore1", "restore2", "restore3", "returned"}
  /\ lost_updates \subseteq Workers \X Workers

\* ------------------------------------------------------------ properties
\* Worker w is after its successful acquire_lock and before its
\* release_lock.
InCriticalSection(w) ==
  lock_acquired[w] /\ pc[w] \in {"check", "select", "mutate", "dwell",
                                 "except"}

AllDone == launched = NumWorkers /\ \A w \in Workers : pc[w] = "done"

\* C1: at most one Worker at a time is between its lock acquisition and its
\* lock release for the resource, over all nodes together.
C1_OneWriterPerResource ==
  Cardinality({w \in Workers : InCriticalSection(w)}) <= 1

\* C2: for every node, at most one Worker is inside the critical section of
\* (resource, node), and the lock table holds at most one live lock for it.
C2_OneWorkerPerNode ==
  \A n \in Nodes :
    /\ Cardinality({w \in Workers : InCriticalSection(w) /\ NodeOf(w) = n})
         <= 1
    /\ Cardinality({e \in {lock_table[n]} : e # NoLock /\ ~e.expired}) <= 1

\* C5: a Worker that has returned called release_lock exactly once if it had
\* acquired the lock and never otherwise, on every exit path; once every
\* Worker of the run has returned the lock table has no entry left.
C5_ReleasedOnEveryExit ==
  /\ \A w \in Workers : releases[w] <= 1
  /\ \A w \in Workers :
       pc[w] = "done" => releases[w] = (IF lock_acquired[w] THEN 1 ELSE 0)
  /\ AllDone => \A n \in Nodes : lock_table[n] = NoLock

\* The run is over and its Workers left by different exits: one with
\* SUCCESS, one from a failing error handler (no outcome stored) after it
\* had acquired the lock; each released once.
C5_Witness ==
  /\ AllDone
  /\ \E u, w \in Workers :
       /\ results[u].status = "SUCCESS" /\ releases[u] = 1
       /\ results[w] = NoResult /\ lock_acquired[w] /\ releases[w] = 1

C9_NoLostUpdateReported ==
  rt_pc # "threads" => lost_updates = {}

\* b is the successful Worker that ended next after the successful Worker a.
AdjacentByEndTime(a, b) ==
  /\ results[a].status = "SUCCESS"
  /\ results[b].status = "SUCCESS"
  /\ results[a].end_time < results[b].end_time
  /\ ~\E c \in Workers :
        /\ results[c].status = "SUCCESS"
        /\ results[a].end_time < results[c].end_time
        /\ results[c].end_time < results[b].end_time

\* C10 (as stated): the pairs reported are exactly the adjacent pairs whose
\* later before value differs from the earlier after value by more than the
\* tolerance.
C10_ReportsEveryMismatch ==
  rt_pc # "threads" =>
    \A a, b \in Workers :
      <<a, b>> \in lost_updates <=>
        /\ AdjacentByEndTime(a, b)
        /\ results[a].type = "WRITE"
        /\ Abs(results[b].before_amount - results[a].after_amount)
             > ToleranceCents

\* C10 (amended): the pairs reported are exactly the adjacent pairs of two
\* UPDATE Workers whose later before value differs from the earlier after
\* value by more than the tolerance; a pair with a DELETE is never reported.
C10_ReportsWriteWriteMismatch ==
  rt_pc # "threads" =>
    \A a, b \in Workers :
      <<a, b>> \in lost_updates <=>
        /\ AdjacentByEndTime(a, b)
        /\ results[a].type = "WRITE"
        /\ results[b].type = "WRITE"
        /\ Abs(results[b].before_amount - results[a].after_amount)
             > ToleranceCents

\* display_results has run on a result set with a reported pair, an
\* adjacent pair of UPDATEs within tolerance, and an end-time order that is
\* not the transaction-id order.
C10_Witness ==
  /\ rt_pc # "threads"
  /\ lost_updates # {}
  /\ \E a, b \in Workers :
       /\ AdjacentByEndTime(a, b)
       /\ results[a].type = "WRITE" /\ results[b].type = "WRITE"
       /\ <<a, b>> \notin lost_updates
  /\ \E a, b \in Workers : a > b /\ AdjacentByEndTime(a, b)

\* The last committer of a result set: its successful Worker with the
\* greatest end_time.
LastCommitter(res) ==
  CHOOSE w \in SuccessfulOf(res) :
    \A v \in SuccessfulOf(res) : res[v].end_time <= res[w].end_time

\* The final observable states of two runs are equal: both deleted, or both
\* amounts within the tolerance.
FinalStatesEqual(c, s) ==
  LET cf == c[LastCommitter(c)]
      sf == s[LastCommitter(s)]
  IN \/ cf.type = "DELETE" /\ sf.type = "DELETE"
     \/ /\ cf.type = "WRITE" /\ sf.type = "WRITE"
        /\ Abs(cf.after_amount - sf.after_amount) < ToleranceCents

\* Every successful Worker found what the successful Worker before it on its
\* node had left (the baseline for the first one), and none came after a
\* DELETE: the run is what its Workers produce when run one at a time in
\* the order of their end times.
SerialEquivalent(res) ==
  \A w \in SuccessfulOf(res) :
    LET earlier == {v \in SuccessfulOf(res) :
                      /\ res[v].node = res[w].node
                      /\ res[v].end_time < res[w].end_time}
    IN IF earlier = {} THEN res[w].before_amount = BaselineAmount
       ELSE LET p == CHOOSE v \in earlier :
                       \A u \in earlier : res[u].end_time <= res[v].end_time
            IN /\ res[p].type = "WRITE"
               /\ res[w].before_amount = res[p].after_amount

BothSucceeded ==
  SuccessfulOf(concurrent_exec) # {} /\ SuccessfulOf(sequential_exec) # {}

\* C7: for every isolation level, validate_serializability returns True
\* when the final observable states of the two runs are equal and False
\* when they differ, a final DELETE against a final WRITE included.
C7_AcceptsIffFinalStatesEqual ==
  (main_pc = "validated" /\ BothSucceeded) =>
    (is_valid <=> FinalStatesEqual(concurrent_exec, sequential_exec))

\* C8 (as stated): every concurrent SERIALIZABLE run that is equivalent to a
\* serial ordering of its Workers is accepted.
C8_AcceptsEverySerialRun ==
  (/\ main_pc = "validated"
   /\ isolation_level = "SERIALIZABLE"
   /\ SerialEquivalent(concurrent_exec)) => is_valid

\* C8 (amended): a concurrent SERIALIZABLE run is flagged exactly when it and
\* the sequential run both end with an UPDATE and the two last committers
\* wrote different amounts, whether or not the concurrent run is equivalent
\* to a serial ordering; every other SERIALIZABLE run is accepted.
C8_FlagsDifferentLastCommitter ==
  (main_pc = "validated" /\ isolation_level = "SERIALIZABLE") =>
    (~is_valid <=>
       /\ BothSucceeded
       /\ concurrent_exec[LastCommitter(concurrent_exec)].type = "WRITE"
       /\ sequential_exec[LastCommitter(sequential_exec)].type = "WRITE"
       /\ concurrent_exec[LastCommitter(concurrent_exec)].after_amount
            # sequential_exec[LastCommitter(sequential_exec)].after_amount)

\* A SERIALIZABLE concurrent run in which every Worker succeeded one at a
\* time, ending with another Worker than the sequential run, was flagged.
C8_Witness ==
  /\ main_pc = "validated"
  /\ isolation_level = "SERIALIZABLE"
  /\ SerialEquivalent(concurrent_exec)
  /\ SuccessfulOf(concurrent_exec) = Workers
  /\ SuccessfulOf(sequential_exec) = Workers
  /\ LastCommitter(concurrent_exec) # LastCommitter(sequential_exec)
  /\ ~is_valid

\* The nodes on which caller c holds the lock: the entry its call inserted
\* is in the table, alive.
HeldBy(c) ==
  {n \in Nodes : taker[n] = c /\ check_lock(lock_table, n, AppOwner)}

\* C3: when acquire_multi_node_lock returns, the caller holds the lock on
\* every node of the set (True) or on none (False), never on a part of it.
C3_AllOrNothing ==
  [][\A c \in Callers :
       mw_pc[c] = "acquire" =>
         /\ mw_pc'[c] = "execute" => HeldBy(c)' = NodeSet(target_nodes[c])
         /\ mw_pc'[c] = "failed" => HeldBy(c)' = {}]_vars

\* Caller a waits for a lock that caller b holds.
WaitsFor(a, b) ==
  /\ mw_pc[a] = "acquire"
  /\ ~LockFree(lock_table, AttemptedNode(a))
  /\ taker[AttemptedNode(a)] = b

\* C4: the locks are attempted in ascending node order whatever order the
\* caller passed (every lock taken in the call is on a lower node than the
\* one attempted), and no two callers each hold a lock the other waits for.
C4_AscendingNoCircularWait ==
  /\ \A c \in Callers :
       mw_pc[c] = "acquire" =>
         /\ NodeSet(target_nodes[c]) = NodeSet(SortedNodes(target_nodes[c]))
         /\ \A n \in TakenInCall(c) : n < AttemptedNode(c)
  /\ \A a, b \in Callers : a # b => ~(WaitsFor(a, b) /\ WaitsFor(b, a))

\* Source 1 ([1,2,3]) and source 2 ([2,1]) are both acquiring; the caller of
\* [2,1] holds node 1 and attempts node 2, the other one waits for node 1.
C4_Witness ==
  \E a, b \in Callers :
    /\ a # b
    /\ target_nodes[a] = << 1, 2, 3 >> /\ target_nodes[b] = << 2, 1 >>
    /\ WaitsFor(a, b)
    /\ mw_pc[b] = "acquire" /\ AttemptedNode(b) = 2 /\ 1 \in HeldBy(b)

\* C11: once run_test has returned, self.results holds one outcome for every
\* Worker of the run, SUCCESS or FAILED, whatever exit the Worker took.
C11_OneOutcomePerWorker ==
  rt_pc = "returned" =>
    \A w \in Workers : results[w].status \in {"SUCCESS", "FAILED"}

\* C12: once run_test has returned, the row exists on every node with the
\* baseline amount.
C12_RestoredToBaseline ==
  rt_pc = "returned" => \A n \in Nodes : db[n] = BaselineAmount

\* C13: of two callers that ask for the locks of nodes 1 and 2 in opposite
\* orders, with no fault, the one that got the first lock gets the second
\* without waiting, the two are never both past acquire_multi_node_lock at
\* once, at most one of them returns 'failed' and a call that succeeded has
\* written both nodes; with or without faults every call returns, with
\* 'success' or 'failed'.
C13_OppositeCallersTerminate ==
  /\ [](faults = 0 =>
          \A c \in Callers :
            (mw_pc[c] = "acquire" /\ lock_idx[c] = 2)
              => LockFree(lock_table, AttemptedNode(c)))
  /\ [](faults = 0 =>
          Cardinality({c \in Callers : mw_pc[c] = "execute"}) <= 1)
  /\ [](faults = 0 =>
          Cardinality({c \in Callers : mw_status[c] = "failed"}) <= 1)
  /\ [](\A c \in Callers :
          mw_pc[c] = "returned" => mw_status[c] \in {"success", "failed"})
  /\ \A c \in Callers : (mw_pc[c] = "acquire") ~> (mw_pc[c] = "returned")

\* Both callers have returned; one succeeded and the other, which had asked
\* in the opposite order while the first held the locks, timed out.
C13_Witness ==
  \E a, b \in Callers :
    /\ mw_pc[a] = "returned" /\ mw_status[a] = "success"
    /\ mw_pc[b] = "returned" /\ mw_status[b] = "failed"
    /\ db[1] = NewAmount(a) /\ db[2] = NewAmount(a)
    /\ faults = 0

\* C15: release_lock called by a call that holds nothing (its acquire
\* returned False, or it already released what it took) leaves the lock
\* table exactly as it was.
C15_ReleaseWithoutAcquireIsNoOp ==
  [][\A c \in Callers :
       (mw_pc[c] = "failed" /\ mw_pc'[c] = "returned")
         => lock_table' = lock_table]_vars

\* C14: an acquire that ends while the lock is still held by another caller
\* returns False; the lock table is left as it was, the holder's entry
\* included, and the caller holds nothing on that node.
C14_TimeoutLeavesTableUnchanged ==
  [][\A u \in Clients :
       (/\ dl_pc[u] = "waiting"
        /\ ~LockFree(lock_table, dl_node[u])
        /\ dl_taker[dl_node[u]] # u
        /\ dl_pc'[u] = "idle")
         => /\ dl_ret'[u] = "false"
            /\ lock_table' = lock_table
            /\ dl_taker' = dl_taker
            /\ dl_taker'[dl_node[u]] # u]_vars

\* A caller's acquire returned False and the only entry of the table is
\* the live lock of the other caller.
C14_Witness ==
  \E u, v \in Clients, n \in Nodes :
    /\ u # v
    /\ dl_pc[u] = "idle" /\ dl_ret[u] = "false"
    /\ dl_taker[n] = v /\ check_lock(lock_table, n, OwnerOf(v))
    /\ \A m \in Nodes \ {n} : lock_table[m] = NoLock
    /\ faults = 0

C17_ReleasedLockCanBeAcquired ==
  /\ [][\A u \in Clients, n \in Nodes :
          (/\ Release(u, n)
           /\ lock_table[n] # NoLock
           /\ lock_table[n].holder = OwnerOf(u))
            => lock_table'[n] = NoLock /\ LockFree(lock_table', n)]_vars
  /\ [][\A u \in Clients :
          (/\ dl_pc[u] = "waiting"
           /\ LockFree(lock_table, dl_node[u])
           /\ dl_pc'[u] = "idle")
            => /\ dl_ret'[u] = "true"
               /\ dl_taker'[dl_node[u]] = u
               /\ check_lock(lock_table', dl_node[u], OwnerOf(u))]_vars

\* One caller's last call was a release and the other caller's acquire has
\* returned True: it holds the only lock of the table, with no lease lapsed.
C17_Witness ==
  \E a, b \in Clients, n \in Nodes :
    /\ a # b
    /\ dl_pc[a] = "idle" /\ dl_ret[a] = "released"
    /\ dl_pc[b] = "idle" /\ dl_ret[b] = "true"
    /\ dl_taker[n] = b /\ check_lock(lock_table, n, OwnerOf(b))
    /\ \A m \in Nodes \ {n} : lock_table[m] = NoLock
    /\ faults = 0

\* C18: once the lease of an entry has lapsed the holder's check_lock is
\* false and the lock counts as free, and an acquire of another caller that
\* ends on a lapsed entry returns True and replaces it; a crashed holder
\* takes no further step.
C18_LapsedLeaseFreesLock ==
  /\ [][\A n \in Nodes :
          LeaseLapse(n)
            => /\ ~check_lock(lock_table', n, lock_table[n].holder)
               /\ LockFree(lock_table', n)]_vars
  /\ [][\A u \in Clients :
          (/\ dl_pc[u] = "waiting"
           /\ lock_table[dl_node[u]] # NoLock
           /\ lock_table[dl_node[u]].expired
           /\ dl_pc'[u] = "idle")
            => /\ dl_ret'[u] = "true"
               /\ dl_taker'[dl_node[u]] = u
               /\ check_lock(lock_table', dl_node[u], OwnerOf(u))]_vars
  /\ [][\A u \in Clients :
          dl_pc[u] = "crashed" => dl_pc'[u] = "crashed"]_vars

\* A caller crashed while it held a lock and never released; the lease has
\* lapsed and the table's only entry is the live lock of the other manager's
\* caller, whose acquire returned True.
C18_Witness ==
  \E a, b \in Clients, n \in Nodes :
    /\ OwnerOf(a) # OwnerOf(b)
    /\ dl_pc[a] = "crashed"
    /\ \A m \in Nodes : dl_taker[m] # a
    /\ faults >= 1
    /\ dl_pc[b] = "idle" /\ dl_ret[b] = "true"
    /\ dl_taker[n] = b /\ check_lock(lock_table, n, OwnerOf(b))
    /\ \A m \in Nodes \ {n} : lock_table[m] = NoLock

\* C19: whenever the lock of a node is free (released, lapsed or never
\* taken) while some caller is polling for it, the lock is eventually taken
\* by some caller.
C19_SomeWaiterAcquires ==
  \A n \in Nodes :
    (/\ LockFree(lock_table, n)
     /\ \E u \in Clients : dl_pc[u] = "waiting" /\ dl_node[u] = n)
      ~> ~LockFree(lock_table, n)

\* The lock of a node was free with callers polling for it and one of them
\* has taken it: its acquire returned True, it holds the live lock, and
\* another caller is still polling for the same node.
C19_Witness ==
  \E a, b \in Clients, n \in Nodes :
    /\ a # b
    /\ dl_pc[a] = "waiting" /\ dl_node[a] = n
    /\ dl_pc[b] = "idle" /\ dl_ret[b] = "true"
    /\ dl_taker[n] = b /\ ~LockFree(lock_table, n)
    /\ faults = 0

\* C20: when release_all_locks returns, no entry of the table is held by the
\* calling manager, on any node, and the entries of other owners are as they
\* were.
C20_ReleaseAllSweepsOwnEntries ==
  [][\A u \in Clients :
       ReleaseAllLocks(u)
         => \A n \in Nodes :
              /\ ~(lock_table'[n] # NoLock
                     /\ lock_table'[n].holder = OwnerOf(u))
              /\ (lock_table[n] # NoLock
                    /\ lock_table[n].holder # OwnerOf(u))
                   => lock_table'[n] = lock_table[n]]_vars

\* A caller's sweep has returned: its manager holds nothing, and the other
\* manager's caller still has its live locks on two nodes.
C20_Witness ==
  \E u, v \in Clients, n, m \in Nodes :
    /\ OwnerOf(u) # OwnerOf(v) /\ n # m
    /\ dl_pc[u] = "idle" /\ dl_ret[u] = "released_all"
    /\ \A k \in Nodes :
         lock_table[k] = NoLock \/ lock_table[k].holder # OwnerOf(u)
    /\ dl_taker[n] = v /\ check_lock(lock_table, n, OwnerOf(v))
    /\ dl_taker[m] = v /\ check_lock(lock_table, m, OwnerOf(v))
    /\ faults = 0

C23_DirtyReadExpectedAtLaxestLevel ==
  new_value \in read_values =>
    IF isolation_level = "READ UNCOMMITTED"
    THEN anomalies = {}
    ELSE reader_pc = "ended" => anomalies # {}

\* C24: in the READ UNCOMMITTED dirty-read test a read made while the
\* writer's update is uncommitted returns the writer's in-flight value; in
\* the READ COMMITTED test no read ever returns an uncommitted value.
C24_InFlightValueSeenOnlyWhenAllowed ==
  /\ (test_case = "dirty_reads_read_uncommitted"
        /\ "updated" \in writer_at_read)
       => (in_flight_read /\ new_value \in read_values)
  /\ test_case = "dirty_read_prevention_read_committed" => ~in_flight_read


\* C25: execute_multi_node_write is all-or-nothing: a call that returns
\* 'failed' from the loop over the nodes leaves its write on none of the
\* nodes it processed before the failing one, and a call that returns
\* 'success' leaves it on the node it wrote last.
C25_MultiNodeWriteIsAtomic ==
  [][\A c \in Callers :
       (mw_pc[c] = "execute" /\ mw_pc'[c] = "returned")
         => IF mw_status'[c] = "failed"
            THEN \A i \in 1 .. (node_idx[c] - 1) :
                   db'[target_nodes[c][i]] # NewAmount(c)
            ELSE db'[target_nodes[c][node_idx[c]]] = NewAmount(c)]_vars


\* C26: execute_with_lock and execute_multi_node_write execute the query on
\* a node only while the manager holds a live lock on every node of the
\* call, and when the call returns no lock taken by it remains.
C26_WritesOnlyUnderLockAndReleases ==
  [][\A c \in Callers :
       /\ (/\ mw_pc[c] = "execute"
           /\ \/ node_idx'[c] = node_idx[c] + 1
              \/ mw_pc'[c] = "returned" /\ mw_status'[c] = "success")
            => \A n \in NodeSet(target_nodes[c]) :
                 check_lock(lock_table, n, AppOwner)
       /\ (mw_pc[c] # "returned" /\ mw_pc'[c] = "returned")
            => \A n \in Nodes : taker'[n] # c]_vars


\* C27: a call of fetch_data or execute_multi_statement_query is answered
\* from the cache only if the cached result is younger than the ttl the
\* caller passed; a result that old or older is fetched again.
C27_CacheHonoursCallerTtl ==
  (last_call # NoCall /\ last_call.age >= 0)
    => (last_call.from_cache <=> last_call.age < last_call.ttl)


\* C28: a Worker whose acquire_lock returned False ends FAILED with category
\* DISTRIBUTED_LOCK_TIMEOUT and does nothing else: it never connected, read
\* no row, changes neither the node's data nor the lock table, and makes
\* no release_lock call.
C28_AcquireTimeoutFailsUntouched ==
  [][\A w \in Workers :
       (/\ pc[w] = "except"
        /\ err[w] = "failed to acquire lock"
        /\ pc'[w] # "except")
         => /\ pc'[w] = "done"
            /\ results'[w].status = "FAILED"
            /\ results'[w].error_category = "DISTRIBUTED_LOCK_TIMEOUT"
            /\ conn[w] = "none" /\ conn'[w] = "none"
            /\ before[w] = NoRow
            /\ ~lock_acquired[w]
            /\ releases' = releases
            /\ lock_table' = lock_table
            /\ db' = db /\ pending' = pending /\ row_lock' = row_lock]_vars

\* A Worker's acquire timed out behind another Worker's lock and it is done:
\* FAILED, DISTRIBUTED_LOCK_TIMEOUT, no release call to its name.
C28_Witness ==
  \E w \in Workers :
    /\ pc[w] = "done"
    /\ results[w].status = "FAILED"
    /\ results[w].error_category = "DISTRIBUTED_LOCK_TIMEOUT"
    /\ releases[w] = 0
    /\ \E v \in Workers : v # w /\ NodeOf(v) = NodeOf(w) /\ releases[v] = 1


\* C29: a Worker whose check_lock fails after a successful acquire rolls
\* back, changes no row, and records FAILED with the category LOST_LOCK.
C29_LostLockHasItsOwnCategory ==
  [][\A w \in Workers :
       (/\ pc[w] = "except"
        /\ err[w] = "lost lock"
        /\ pc'[w] = "done")
         => /\ results'[w].status = "FAILED"
            /\ results'[w].error_category = "LOST_LOCK"
            /\ db' = db
            /\ pending'[NodeOf(w)] = NoPending]_vars


\* C30: a FAILED outcome carries one of the three categories, chosen by the
\* error: LOCK_CONTENTION exactly for a native lock-wait timeout or deadlock,
\* DISTRIBUTED_LOCK_TIMEOUT exactly for a failed acquire_lock, OTHER for the
\* rest.  When the outcome is recorded the Worker's transaction holds no row
\* lock and no uncommitted value, nothing is committed by that step, and the
\* amount of a FAILED UPDATE Worker is not in the table afterwards.
C30_FailedOutcomeClassifiedAfterRollback ==
  [][\A w \in Workers :
       /\ (pc[w] = "except" /\ pc'[w] = "done"
             /\ results'[w].status = "FAILED")
            => /\ results'[w].error_category \in
                    {"LOCK_CONTENTION", "DISTRIBUTED_LOCK_TIMEOUT", "OTHER"}
               /\ results'[w].error_category = "LOCK_CONTENTION"
                    <=> err[w] \in {"lock wait timeout", "deadlock"}
               /\ results'[w].error_category = "DISTRIBUTED_LOCK_TIMEOUT"
                    <=> err[w] = "failed to acquire lock"
               /\ row_lock'[NodeOf(w)] # w
               /\ row_lock[NodeOf(w)] = w
                    => pending'[NodeOf(w)] = NoPending
               /\ db' = db
       /\ (results'[w].status = "FAILED" /\ results'[w].type = "WRITE")
            => db'[NodeOf(w)] # NewAmount(w)]_vars

\* A Worker failed with its UPDATE or DELETE still uncommitted and is done:
\* FAILED / OTHER, the row as it was before, no row lock left.
C30_Witness ==
  \E w \in Workers :
    /\ pc[w] = "done"
    /\ results[w].status = "FAILED"
    /\ results[w].error_category = "OTHER"
    /\ verified[w]
    /\ faults = 1
    /\ db[NodeOf(w)] = BaselineAmount
    /\ row_lock[NodeOf(w)] = 0
    /\ pending[NodeOf(w)] = NoPending
    /\ \A v \in Workers : v # w => pc[v] = "acquire"


\* C32: a Worker's commit changes the row only while the Worker still holds
\* a live DLM lock on the node: a lease that lapsed during the dwell keeps
\* the mutation from being committed.
C32_CommitsOnlyWhileLockHeld ==
  [][\A w \in Workers :
       (pc[w] = "dwell" /\ pc'[w] # "dwell" /\ db' # db)
         => check_lock(lock_table, NodeOf(w), CaseOwner)]_vars


\* C33: when a call whose lock acquisition failed returns, every entry that
\* another caller's call inserted is still there, still that caller's, and
\* as live as it was.
C33_FailedCallKeepsOthersLocks ==
  [][\A c \in Callers :
       (mw_pc[c] = "failed" /\ mw_pc'[c] = "returned")
         => \A n \in Nodes :
              (taker[n] \in Callers \ {c})
                => /\ taker'[n] = taker[n]
                   /\ lock_table'[n] = lock_table[n]]_vars


\* C37: in sequential mode no Worker's acquire_lock finds the lock taken: a
\* Worker about to acquire finds its node's lock free, no Worker raises
\* "failed to acquire lock", and no outcome is DISTRIBUTED_LOCK_TIMEOUT,
\* whatever the earlier Workers' outcomes were.
C37_SequentialNeverTimesOutOnLock ==
  mode = "sequential" =>
    \A w \in Workers :
      /\ pc[w] = "acquire" => LockFree(lock_table, NodeOf(w))
      /\ err[w] # "failed to acquire lock"
      /\ results[w].status = "FAILED"
           => results[w].error_category # "DISTRIBUTED_LOCK_TIMEOUT"

\* Sequential run: a Worker failed after taking the lock, and the next
\* Worker of the same node took the lock and succeeded.
C37_Witness ==
  /\ mode = "sequential"
  /\ \E v, w \in Workers :
       /\ v < w /\ NodeOf(v) = NodeOf(w)
       /\ results[v].status = "FAILED" /\ releases[v] = 1
       /\ results[w].status = "SUCCESS" /\ releases[w] = 1


\* C35: a "Dirty Read" anomaly is logged only if some read of the reader ran
\* while the writer's update was uncommitted; reads made after the writer's
\* transaction ended are never logged as dirty.
C35_DirtyReadOnlyWhileUncommitted ==
  "Dirty Read" \in anomalies => "updated" \in writer_at_read


\* C34: the isolation level selected for a test case is the level of the
\* sessions on which its reader and writer threads run.
C34_SelectedLevelIsSessionLevel ==
  test_case # "none"
    => \A i \in 1 .. 2 : SessionLevel(test_nodes[i]) = isolation_level

\* C31: when a test case has ended, the row on the writer's node holds the
\* initial value the case read at its start.
C31_RowRestoredAfterTestCase ==
  writer_pc = "ended" => db[test_nodes[1]] = initial_value


\* C36: the concurrent-writes test logs "Lost Update" only if both write
\* threads' UPDATEs succeeded and were committed, and successful_writes
\* counts exactly the threads whose UPDATE succeeded.
C36_LostUpdateOnlyForCommittedWrites ==
  successful_writes # -1 =>
    /\ "Lost Update" \in anomalies => \A i \in 1 .. 2 : cw_update_ok[i]
    /\ successful_writes = Cardinality({i \in 1 .. 2 : cw_update_ok[i]})


\* C38: two pending inserts, of one session or of two, never carry the same
\* trans_id, and the trans_id of a pending insert is not the trans_id of a
\* row of another node.
C38_PendingInsertIdsAreFresh ==
  \A s, t \in Sessions :
    \A i \in PageIndices(s, "add"), j \in PageIndices(t, "add") :
      /\ active_transactions[s][i].tag # active_transactions[t][j].tag
           => active_transactions[s][i].trans_id
                # active_transactions[t][j].trans_id
      /\ \A n \in Nodes \ {active_transactions[s][i].node} :
           active_transactions[s][i].trans_id \notin trans_ids[n]

\* C39: the three lists of a session have equal length and describe the
\* same transactions index by index; every connection in the lists is
\* open; after a Commit or Rollback click on a page no transaction of that
\* page is left in the lists.
C39_ListsAlignedAndCleared ==
  \A s \in Sessions :
    /\ Len(transaction_connections[s]) = Len(active_transactions[s])
    /\ Len(transaction_cursors[s]) = Len(active_transactions[s])
    /\ \A i \in 1 .. Len(active_transactions[s]) :
         /\ transaction_connections[s][i].tag = active_transactions[s][i].tag
         /\ transaction_cursors[s][i].tag = active_transactions[s][i].tag
         /\ transaction_connections[s][i].state = "open"
    /\ last_click[s] # "none" => PageIndices(s, last_click[s]) = {}

====
